---- MODULE Spec2Model ----
(***************************************************************************)
(* Bento order system: the order lifecycle (routers/customer.py,           *)
(* routers/store.py), the menu catalogue and the store-scoped queries,     *)
(* over the tables of models.py.  A request is served in one step and its  *)
(* response then leaves the server; for the handlers that read, check and  *)
(* then commit, a second rendering splits the request into its             *)
(* read-and-check and its commit, so that requests of concurrent workers   *)
(* interleave.                                                             *)
(***************************************************************************)
EXTENDS Integers, Sequences, FiniteSets, TLC

\* ------------------------------------------------------------------ bounds
\* number of order rows the fixtures insert before the API is used
NumSeedOrders == 2
\* number of order rows the tables hold when the store's queries are asked
NumQueryOrders == 3
\* order rows in the table when the popular menus are ranked
NumRankedOrders == 5
\* requests that may be between their check and their commit at once
MaxReq == 2

\* ------------------------------------------------------------ value domains
\* an unset foreign key / an absent optional value (ids start at 1)
NULL == 0

Statuses == {"pending", "confirmed", "preparing", "ready", "completed", "cancelled"}

\* a request body value the OrderStatusUpdate pattern does not match
BadStatus == "shipped"

StoreIds == {1, 2}

\* ------------------------------------------------------------------- users
\* The users table as the fixtures fill it: two customers, the owner and the
\* manager of store 1, the owner and a staff member of store 2, and a store
\* account that belongs to no store.
Users ==
    [ u \in 1..7 |->
        CASE u = 1 -> [role |-> "customer", store_id |-> NULL, user_role |-> "none",
                       username |-> <<"a", "k", "i">>, full_name |-> <<"A", "k", "i">>]
          [] u = 2 -> [role |-> "customer", store_id |-> NULL, user_role |-> "none",
                       username |-> <<"b", "o">>, full_name |-> <<"B", "o">>]
          [] u = 3 -> [role |-> "store", store_id |-> 1, user_role |-> "owner",
                       username |-> <<"o", "1">>, full_name |-> <<"O", "1">>]
          [] u = 4 -> [role |-> "store", store_id |-> 2, user_role |-> "owner",
                       username |-> <<"o", "2">>, full_name |-> <<"O", "2">>]
          [] u = 5 -> [role |-> "store", store_id |-> 1, user_role |-> "manager",
                       username |-> <<"m", "1">>, full_name |-> <<"M", "1">>]
          [] u = 6 -> [role |-> "store", store_id |-> 2, user_role |-> "staff",
                       username |-> <<"s", "2">>, full_name |-> <<"S", "2">>]
          [] u = 7 -> [role |-> "store", store_id |-> NULL, user_role |-> "owner",
                       username |-> <<"o", "0">>, full_name |-> <<"O", "0">>] ]

UserIds == DOMAIN Users

\* dependencies.get_current_customer: only a customer account passes
get_current_customer(u) == Users[u].role = "customer"

\* dependencies.require_role(allowed): a store account holding one of the roles
require_role(u, allowed) == Users[u].role = "store" /\ Users[u].user_role \in allowed

AnyStoreRole == {"owner", "manager", "staff"}

\* (mutant) the handlers without their store check
NoStore_Never(u) == FALSE

\* "not current_user.store_id", the first statement of every /store handler
NoStore(u) == Users[u].store_id = NULL

\* ------------------------------------------------------------------- state
VARIABLES
    menus,      \* menus table: id -> row
    menu_seq,   \* last id the menus table handed out
    orders,     \* orders table: id -> row
    order_seq,  \* last id the orders table handed out
    writes,     \* requests that passed their check and have not committed
    resp,       \* the response of the request that completed last
    body,       \* the rows or figures that response carried
    today       \* the server's calendar day

vars == <<menus, menu_seq, orders, order_seq, writes, resp, body, today>>

\* ------------------------------------------------------------ time of day
\* datetime.min.time() and datetime.max.time(), as <<hour, minute, second, microsecond>>
MinTime == <<0, 0, 0, 0>>
MaxTime == <<23, 59, 59, 999999>>

\* an instant is <<day>> \o time of day; instants compare field by field
RECURSIVE SeqLeq(_, _)
SeqLeq(a, b) ==
    IF a = <<>> THEN TRUE
    ELSE IF Head(a) < Head(b) THEN TRUE
    ELSE IF Head(a) > Head(b) THEN FALSE
    ELSE SeqLeq(Tail(a), Tail(b))

At(day, tod) == <<day>> \o tod

\* ---------------------------------------------------------------- fixtures
\* The menu rows present before the API is used: one per store, and a second
\* menu of store 1, not on sale, that no order of the lifecycle fixtures
\* references.  A name is the sequence of its characters.
SeedMenus ==
    [ m \in 1..3 |->
        CASE m = 1 -> [name |-> <<"K", "a", "r", "a">>, price |-> 500,
                       is_available |-> TRUE, store_id |-> 1]
          [] m = 2 -> [name |-> <<"S", "a", "k", "e">>, price |-> 700,
                       is_available |-> TRUE, store_id |-> 2]
          [] m = 3 -> [name |-> <<"N", "o", "r", "i">>, price |-> 500,
                       is_available |-> FALSE, store_id |-> 1] ]

\* the calendar day (of the month) on which the requests are served
FixtureDay == 10

\* An order row as the fixtures insert it: row i is ordered by one of the two
\* customers, its store is the menu's store and its total the menu's price
\* times the quantity.
FixtureOrder(i, m, st, day) ==
    LET q == ((i - 1) % 2) + 1
    IN  [ user_id |-> ((i - 1) % 2) + 1,
          menu_id |-> m,
          store_id |-> SeedMenus[m].store_id,
          quantity |-> q,
          total_price |-> SeedMenus[m].price * q,
          status |-> st,
          delivery_time |-> NULL,
          notes |-> <<>>,
          ordered_at |-> At(day, <<10 + (i % 2), 0, 0, 0>>),
          updated_at |-> At(day, <<10 + (i % 2), 0, 0, 0>>) ]

\* order row i of the lifecycle fixtures: the two stores alternate
SeedOrder(i, st, day) == FixtureOrder(i, ((i - 1) % 2) + 1, st, day)

NoResp ==
    [op |-> "none", caller |-> NULL, target |-> NULL, arg |-> "", code |-> 0,
     detail |-> "", seen |-> ""]

Init ==
    /\ menus = SeedMenus
    /\ menu_seq = Len(SeedMenus)
    /\ \E st \in [1..NumSeedOrders -> Statuses] :
          orders = [i \in 1..NumSeedOrders |-> SeedOrder(i, st[i], FixtureDay)]
    /\ order_seq = NumSeedOrders
    /\ writes = {}
    /\ resp = NoResp
    /\ body = <<>>
    /\ today = FixtureDay

\* the tables when the store's queries are asked: every order row drawn from
\* the given menus, statuses and ages in days
QueryTables(ms, sts, ages) ==
    /\ menus = SeedMenus
    /\ menu_seq = Len(SeedMenus)
    /\ \E f \in [1..NumQueryOrders -> ms \X sts \X ages] :
          orders = [i \in 1..NumQueryOrders |->
                       FixtureOrder(i, f[i][1], f[i][2], FixtureDay - f[i][3])]
    /\ order_seq = NumQueryOrders
    /\ writes = {}
    /\ resp = NoResp
    /\ body = <<>>
    /\ today = FixtureDay

InitAgg == QueryTables({1, 2, 3}, {"pending", "completed", "cancelled"}, {0, 1})

\* the orders table when every row is as create_order builds it: the status
\* the column default gives
InitPending ==
    /\ menus = SeedMenus
    /\ menu_seq = Len(SeedMenus)
    /\ orders = [i \in 1..NumSeedOrders |-> SeedOrder(i, "pending", FixtureDay)]
    /\ order_seq = NumSeedOrders
    /\ writes = {}
    /\ resp = NoResp
    /\ body = <<>>
    /\ today = FixtureDay

\* tables holding orders of today in each of the six statuses the column has held
InitSix == QueryTables({1, 2}, Statuses, {0})

\* the menus of a store that sells one menu more than the dashboard ranks
RankedMenus ==
    [ m \in 1..4 |->
        [name |-> <<"B", "o", "x">> \o <<m>>, price |-> 400 + 100 * m,
         is_available |-> TRUE, store_id |-> 1] ]

\* orders of today of that store, sold or cancelled, order i for one of the
\* first i menus
InitRanked ==
    /\ menus = RankedMenus
    /\ menu_seq = Len(RankedMenus)
    /\ \E f \in [1..NumRankedOrders -> (DOMAIN RankedMenus) \X {"completed", "cancelled"}] :
          /\ \A i \in 1..NumRankedOrders : f[i][1] <= i
          /\ orders = [i \in 1..NumRankedOrders |->
                       [FixtureOrder(i, 1, f[i][2], FixtureDay) EXCEPT
                           !.menu_id = f[i][1],
                           !.total_price = RankedMenus[f[i][1]].price * (@ \div 500)]]
    /\ order_seq = NumRankedOrders
    /\ writes = {}
    /\ resp = NoResp
    /\ body = <<>>
    /\ today = FixtureDay

\* tables whose orders were placed at the edges of the day before the server's:
\* late on the day before it, at its first instant, at 23:59:59 sharp, half a
\* second later, and at the first instant of the day after.  Every third order
\* is an order of store 2.
EdgeDay == FixtureDay - 1

EdgeInstants ==
    {At(EdgeDay - 1, <<23, 59, 59, 500000>>), At(EdgeDay, MinTime),
     At(EdgeDay, <<23, 59, 59, 0>>), At(EdgeDay, <<23, 59, 59, 500000>>),
     At(EdgeDay + 1, MinTime)}

InitEdge ==
    /\ menus = SeedMenus
    /\ menu_seq = Len(SeedMenus)
    /\ \E f \in [1..NumQueryOrders -> {"completed", "cancelled"} \X EdgeInstants] :
          orders = [i \in 1..NumQueryOrders |->
                       [FixtureOrder(i, IF i % 3 = 0 THEN 2 ELSE 1, f[i][1], EdgeDay)
                           EXCEPT !.ordered_at = f[i][2], !.updated_at = f[i][2]]]
    /\ order_seq = NumQueryOrders
    /\ writes = {}
    /\ resp = NoResp
    /\ body = <<>>
    /\ today = FixtureDay

InitList == QueryTables({1, 2}, {"completed", "cancelled"}, {0, 1})

\* ---------------------------------------------------------------- responses
Respond(op, caller, target, arg, code, detail, seen) ==
    resp' = [op |-> op, caller |-> caller, target |-> target, arg |-> arg,
             code |-> code, detail |-> detail, seen |-> seen]

\* the server has sent the last response and takes the next step of a request
Idle == resp.op = "none"

\* the response leaves the server
deliver ==
    /\ ~Idle
    /\ resp' = NoResp
    /\ body' = <<>>
    /\ UNCHANGED <<menus, menu_seq, orders, order_seq, writes, today>>

\* what a handler's read-and-check step decides: 200 lets it go on to commit
Decision(code, detail, seen) == [code |-> code, detail |-> detail, seen |-> seen]

\* stage the commit of a request whose check passed
Stage(w) == writes' = writes \cup {w}

\* the workers hold at most MaxReq requests between check and commit
Admit == Idle /\ Cardinality(writes) < MaxReq

\* func.now() of the server
Now == At(today, <<12, 0, 0, 0>>)

\* (mutant) an UPDATE that stamps ordered_at as well
SetStatus_Restamped(oid, st) ==
    orders' = [orders EXCEPT ![oid].status = st, ![oid].updated_at = Now,
                             ![oid].ordered_at = Now]

\* (mutant) an UPDATE that leaves a completed or cancelled order alone
SetStatus_FirstWins(oid, st) ==
    orders' = IF orders[oid].status \in {"completed", "cancelled"} THEN orders
              ELSE [orders EXCEPT ![oid].status = st, ![oid].updated_at = Now]

\* the UPDATE a status-changing request commits: status, and updated_at by onupdate
SetStatus(oid, st) ==
    orders' = [orders EXCEPT ![oid].status = st, ![oid].updated_at = Now]

\* ------------------------------------------------------------ cancel_order
\* (mutant) cancel_order accepting every order that is not yet cancelled
CancelAllowed_NotCancelled(st) == st # "cancelled"

\* (mutant) cancel_order still accepting a confirmed order
CancelAllowed_Confirmed(st) == st \in {"pending", "confirmed"}

\* the status test of cancel_order
CancelAllowed(st) == st = "pending"

\* (mutant) the lookup by id alone
OwnOrder_AnyOwner(u, oid) == oid \in DOMAIN orders

\* the order lookup of the customer endpoints: by id, among the caller's orders
OwnOrder(u, oid) == oid \in DOMAIN orders /\ orders[oid].user_id = u

\* cancel_order up to its commit: authentication, lookup, status test
cancel_order_check(u, oid) ==
    IF ~get_current_customer(u) THEN Decision(403, "Forbidden", "")
    ELSE IF ~OwnOrder(u, oid) THEN Decision(404, "Order not found", "")
    ELSE IF ~CancelAllowed(orders[oid].status)
    THEN Decision(400, "Only pending orders can be cancelled", orders[oid].status)
    ELSE Decision(200, "", orders[oid].status)

\* PUT /customer/orders/{order_id}/cancel, served without interruption
cancel_order(u, oid) ==
    LET d == cancel_order_check(u, oid)
    IN  /\ Idle
        /\ Respond("cancel_order", u, oid, "", d.code, d.detail, d.seen)
        /\ IF d.code = 200 THEN SetStatus(oid, "cancelled") ELSE UNCHANGED orders
        /\ UNCHANGED <<menus, menu_seq, order_seq, writes, body, today>>

\* the same handler on a worker that others may overtake: up to the commit
cancel_order_begin(u, oid) ==
    LET d == cancel_order_check(u, oid)
    IN  /\ Admit
        /\ IF d.code = 200
           THEN /\ Stage([op |-> "cancel_order", caller |-> u, target |-> oid,
                          val |-> "cancelled", seen |-> d.seen])
                /\ UNCHANGED resp
           ELSE /\ Respond("cancel_order", u, oid, "", d.code, d.detail, d.seen)
                /\ UNCHANGED writes
        /\ UNCHANGED <<menus, menu_seq, orders, order_seq, body, today>>

\* order.status = "cancelled"; db.commit()
cancel_order_commit(w) ==
    /\ Idle
    /\ w \in writes
    /\ w.op = "cancel_order"
    /\ SetStatus(w.target, w.val)
    /\ writes' = writes \ {w}
    /\ Respond("cancel_order", w.caller, w.target, "", 200, "", w.seen)
    /\ UNCHANGED <<menus, menu_seq, order_seq, body, today>>

\* ------------------------------------------------------------ get_my_order
\* GET /customer/orders/{order_id}: the caller's own order
get_my_order(u, oid) ==
    /\ Idle
    /\ IF ~get_current_customer(u)
       THEN /\ Respond("get_my_order", u, oid, "", 403, "Forbidden", "")
            /\ body' = <<>>
       ELSE IF ~OwnOrder(u, oid)
       THEN /\ Respond("get_my_order", u, oid, "", 404, "Order not found", "")
            /\ body' = <<>>
       ELSE /\ Respond("get_my_order", u, oid, "", 200, "", orders[oid].status)
            /\ body' = <<orders[oid]>>
    /\ UNCHANGED <<menus, menu_seq, orders, order_seq, writes, today>>

\* ----------------------------------------------------- update_order_status
\* OrderStatus.get_allowed_transitions: the four-state table
get_allowed_transitions(st) ==
    CASE st = "pending" -> {"ready", "cancelled"}
      [] st = "ready" -> {"completed"}
      [] OTHER -> {}

\* OrderStatusUpdate: the pattern a requested status must match
OrderStatusUpdate(t) ==
    t \in {"pending", "confirmed", "preparing", "ready", "completed", "cancelled"}

\* (mutant) the transition test letting a request for the stored status pass
TransitionAllowed_Same(st, t) == t \in get_allowed_transitions(st) \cup {st}

\* (mutant) the transition test letting a cancelled order be taken up again
TransitionAllowed_Reopen(st, t) ==
    t \in get_allowed_transitions(st) \/ (st = "cancelled" /\ t = "pending")

\* the transition test of update_order_status
TransitionAllowed(st, t) == t \in get_allowed_transitions(st)

\* the order lookup of update_order_status: by id, within the caller's store
StoreOrder(u, oid) == oid \in DOMAIN orders /\ orders[oid].store_id = Users[u].store_id

\* update_order_status up to its commit: role, body, store, lookup, transition
update_order_status_check(u, oid, t) ==
    IF ~require_role(u, AnyStoreRole) THEN Decision(403, "Forbidden", "")
    ELSE IF ~OrderStatusUpdate(t) THEN Decision(422, "Unprocessable", "")
    ELSE IF NoStore(u)
    THEN Decision(400, "User is not associated with any store", "")
    ELSE IF ~StoreOrder(u, oid) THEN Decision(404, "Order not found", "")
    ELSE IF ~TransitionAllowed(orders[oid].status, t)
    THEN Decision(400, "Invalid status transition", orders[oid].status)
    ELSE Decision(200, "", orders[oid].status)

\* PUT /store/orders/{order_id}/status, served without interruption
update_order_status(u, oid, t) ==
    LET d == update_order_status_check(u, oid, t)
    IN  /\ Idle
        /\ Respond("update_order_status", u, oid, t, d.code, d.detail, d.seen)
        /\ IF d.code = 200 THEN SetStatus(oid, t) ELSE UNCHANGED orders
        /\ UNCHANGED <<menus, menu_seq, order_seq, writes, body, today>>

\* the same handler on a worker that others may overtake: up to the commit
update_order_status_begin(u, oid, t) ==
    LET d == update_order_status_check(u, oid, t)
    IN  /\ Admit
        /\ IF d.code = 200
           THEN /\ Stage([op |-> "update_order_status", caller |-> u, target |-> oid,
                          val |-> t, seen |-> d.seen])
                /\ UNCHANGED resp
           ELSE /\ Respond("update_order_status", u, oid, t, d.code, d.detail, d.seen)
                /\ UNCHANGED writes
        /\ UNCHANGED <<menus, menu_seq, orders, order_seq, body, today>>

\* order.status = new_status; db.commit()
update_order_status_commit(w) ==
    /\ Idle
    /\ w \in writes
    /\ w.op = "update_order_status"
    /\ SetStatus(w.target, w.val)
    /\ writes' = writes \ {w}
    /\ Respond("update_order_status", w.caller, w.target, w.val, 200, "", w.seen)
    /\ UNCHANGED <<menus, menu_seq, order_seq, body, today>>

\* ------------------------------------------------------------ create_order
\* OrderCreate: menu_id and store_id from 1, quantity from 1 to 10
OrderCreate(inp) ==
    inp.menu_id >= 1 /\ inp.quantity >= 1 /\ inp.quantity <= 10 /\ inp.store_id >= 1

\* the menu lookup of create_order: by id, among the available menus
AvailableMenu(mid) == mid \in DOMAIN menus /\ menus[mid].is_available

\* the row Order(user_id, menu_id, quantity, total_price, delivery_time, notes)
\* builds: store_id is not among the keyword arguments and has no default;
\* status takes the column default
NewOrder(u, inp) ==
    [ user_id |-> u,
      menu_id |-> inp.menu_id,
      store_id |-> NULL,
      quantity |-> inp.quantity,
      total_price |-> menus[inp.menu_id].price * inp.quantity,
      status |-> "pending",
      delivery_time |-> NULL,
      notes |-> <<>>,
      ordered_at |-> Now,
      updated_at |-> Now ]

\* (mutant) an orders table without its NOT NULL constraints
OrderRowAccepted_Any(row) == TRUE

\* the NOT NULL columns of the orders table
OrderRowAccepted(row) ==
    /\ row.user_id # NULL
    /\ row.menu_id # NULL
    /\ row.store_id # NULL

\* the orders table holds at most one row more than the fixtures inserted
MaxOrders == NumSeedOrders + 1

\* create_order up to its commit: authentication, body, menu lookup
create_order_check(u, inp) ==
    IF ~get_current_customer(u) THEN Decision(403, "Forbidden", "")
    ELSE IF ~OrderCreate(inp) THEN Decision(422, "Unprocessable", "")
    ELSE IF ~AvailableMenu(inp.menu_id)
    THEN Decision(404, "Menu not found or not available", "")
    ELSE Decision(200, "", "")

\* db.add(db_order); db.commit(): the INSERT, which the table's constraints
\* may refuse
InsertOrder(u, inp, row) ==
    IF ~OrderRowAccepted(row)
    THEN /\ Respond("create_order", u, inp.menu_id, inp, 500, "IntegrityError", "")
         /\ UNCHANGED <<orders, order_seq, body>>
    ELSE /\ order_seq < MaxOrders
         /\ orders' = [o \in DOMAIN orders \cup {order_seq + 1} |->
                          IF o = order_seq + 1 THEN row ELSE orders[o]]
         /\ order_seq' = order_seq + 1
         /\ Respond("create_order", u, inp.menu_id, inp, 200, "", "")
         /\ body' = <<row>>

\* POST /customer/orders, served without interruption
create_order(u, inp) ==
    LET d == create_order_check(u, inp)
    IN  /\ Idle
        /\ IF d.code # 200
           THEN /\ Respond("create_order", u, inp.menu_id, inp, d.code, d.detail, "")
                /\ UNCHANGED <<orders, order_seq, body>>
           ELSE InsertOrder(u, inp, NewOrder(u, inp))
        /\ UNCHANGED <<menus, menu_seq, writes, today>>

\* the same handler on a worker that others may overtake: up to db.add, the
\* row built from the menu as the lookup returned it
create_order_begin(u, inp) ==
    LET d == create_order_check(u, inp)
    IN  /\ Admit
        /\ IF d.code = 200
           THEN /\ Stage([op |-> "create_order", caller |-> u, target |-> inp.menu_id,
                          val |-> [inp |-> inp, row |-> NewOrder(u, inp)], seen |-> ""])
                /\ UNCHANGED resp
           ELSE /\ Respond("create_order", u, inp.menu_id, inp, d.code, d.detail, "")
                /\ UNCHANGED writes
        /\ UNCHANGED <<menus, menu_seq, orders, order_seq, body, today>>

\* db.add(db_order); db.commit()
create_order_commit(w) ==
    /\ Idle
    /\ w \in writes
    /\ w.op = "create_order"
    /\ InsertOrder(w.caller, w.val.inp, w.val.row)
    /\ writes' = writes \ {w}
    /\ UNCHANGED <<menus, menu_seq, today>>

\* ------------------------------------------------------------- update_menu
MenuWriters == {"owner", "manager"}

\* MenuUpdate: every field optional, a price from 1
MenuUpdate(upd) == "price" \in DOMAIN upd => upd.price >= 1

\* (mutant) the menu lookup by id alone
StoreMenu_AnyStore(u, mid) == mid \in DOMAIN menus

\* the menu lookup of the store endpoints: by id, within the caller's store
StoreMenu(u, mid) == mid \in DOMAIN menus /\ menus[mid].store_id = Users[u].store_id

\* for field, value in update_data.items(): setattr(menu, field, value)
ApplyUpdate(row, upd) ==
    [ name |-> IF "name" \in DOMAIN upd THEN upd.name ELSE row.name,
      price |-> IF "price" \in DOMAIN upd THEN upd.price ELSE row.price,
      is_available |->
          IF "is_available" \in DOMAIN upd THEN upd.is_available ELSE row.is_available,
      store_id |-> row.store_id ]

\* update_menu up to its commit: role, body, store, lookup
update_menu_check(u, mid, upd) ==
    IF ~require_role(u, MenuWriters) THEN Decision(403, "Forbidden", "")
    ELSE IF ~MenuUpdate(upd) THEN Decision(422, "Unprocessable", "")
    ELSE IF NoStore(u)
    THEN Decision(400, "User is not associated with any store", "")
    ELSE IF ~StoreMenu(u, mid) THEN Decision(404, "Menu not found", "")
    ELSE Decision(200, "", "")

\* PUT /store/menus/{menu_id}
update_menu(u, mid, upd) ==
    LET d == update_menu_check(u, mid, upd)
    IN  /\ Idle
        /\ Respond("update_menu", u, mid, upd, d.code, d.detail, "")
        /\ IF d.code = 200
           THEN /\ menus' = [menus EXCEPT ![mid] = ApplyUpdate(menus[mid], upd)]
                /\ body' = <<menus'[mid]>>
           ELSE UNCHANGED <<menus, body>>
        /\ UNCHANGED <<menu_seq, orders, order_seq, writes, today>>

\* ------------------------------------------------------------- delete_menu
\* (mutant) delete_menu open to managers as the other menu writes are
MenuDeleters_WithManager == {"owner", "manager"}

MenuDeleters == {"owner"}

\* (mutant) the delete that never looks for orders
existing_orders_None(mid) == FALSE

\* db.query(Order).filter(Order.menu_id == menu_id).first()
existing_orders(mid) == \E o \in DOMAIN orders : orders[o].menu_id = mid

\* delete_menu up to its write: role, store, lookup
delete_menu_check(u, mid) ==
    IF ~require_role(u, MenuDeleters) THEN Decision(403, "Forbidden", "")
    ELSE IF NoStore(u)
    THEN Decision(400, "User is not associated with any store", "")
    ELSE IF ~StoreMenu(u, mid) THEN Decision(404, "Menu not found", "")
    ELSE IF existing_orders(mid) THEN Decision(200, "Menu disabled due to existing orders", "")
    ELSE Decision(200, "Menu deleted successfully", "")

\* DELETE /store/menus/{menu_id}: the menu is disabled when an order
\* references it, and its row is deleted otherwise
delete_menu(u, mid) ==
    LET d == delete_menu_check(u, mid)
    IN  /\ Idle
        /\ Respond("delete_menu", u, mid, "", d.code, d.detail, "")
        /\ IF d.code # 200 THEN UNCHANGED menus
           ELSE IF existing_orders(mid)
           THEN menus' = [menus EXCEPT ![mid].is_available = FALSE]
           ELSE menus' = [m \in DOMAIN menus \ {mid} |-> menus[m]]
        /\ UNCHANGED <<menu_seq, orders, order_seq, writes, body, today>>

\* the same handler on a worker that others may overtake: up to the branch
\* on existing_orders
delete_menu_begin(u, mid) ==
    LET d == delete_menu_check(u, mid)
    IN  /\ Admit
        /\ IF d.code = 200
           THEN /\ Stage([op |-> "delete_menu", caller |-> u, target |-> mid,
                          val |-> d.detail, seen |-> ""])
                /\ UNCHANGED resp
           ELSE /\ Respond("delete_menu", u, mid, "", d.code, d.detail, "")
                /\ UNCHANGED writes
        /\ UNCHANGED <<menus, menu_seq, orders, order_seq, body, today>>

\* menu.is_available = False; db.commit(), or db.delete(menu); db.commit(),
\* as the branch was taken.  An UPDATE of a row another request has deleted
\* matches no row and raises StaleDataError; a DELETE of such a row only warns.
delete_menu_commit(w) ==
    /\ Idle
    /\ w \in writes
    /\ w.op = "delete_menu"
    /\ writes' = writes \ {w}
    /\ IF w.val = "Menu disabled due to existing orders"
       THEN IF w.target \in DOMAIN menus
            THEN /\ menus' = [menus EXCEPT ![w.target].is_available = FALSE]
                 /\ Respond("delete_menu", w.caller, w.target, "", 200, w.val, "")
            ELSE /\ UNCHANGED menus
                 /\ Respond("delete_menu", w.caller, w.target, "", 500, "StaleDataError", "")
       ELSE /\ menus' = [m \in DOMAIN menus \ {w.target} |-> menus[m]]
            /\ Respond("delete_menu", w.caller, w.target, "", 200, w.val, "")
    /\ UNCHANGED <<menu_seq, orders, order_seq, body, today>>

\* ------------------------------------------------------------- create_menu
\* MenuCreate: the fields of MenuBase and a store_id from 1, a price from 1
MenuCreate(inp) == inp.price >= 1 /\ inp.store_id >= 1

\* Menu(**menu.dict(), store_id=current_user.store_id): a keyword argument
\* given twice raises TypeError before any row is built
MenuKeywordsClash(inp) == "store_id" \in DOMAIN inp

\* the row the constructor builds when its keywords do not clash
NewMenu(u, inp) ==
    [ name |-> inp.name, price |-> inp.price, is_available |-> inp.is_available,
      store_id |-> Users[u].store_id ]

\* the menus table holds at most one row more than the fixtures inserted
MaxMenus == Len(SeedMenus) + 1

\* POST /store/menus
create_menu(u, inp) ==
    /\ Idle
    /\ IF ~require_role(u, MenuWriters)
       THEN /\ Respond("create_menu", u, NULL, inp, 403, "Forbidden", "")
            /\ UNCHANGED <<menus, menu_seq, body>>
       ELSE IF ~MenuCreate(inp)
       THEN /\ Respond("create_menu", u, NULL, inp, 422, "Unprocessable", "")
            /\ UNCHANGED <<menus, menu_seq, body>>
       ELSE IF NoStore(u)
       THEN /\ Respond("create_menu", u, NULL, inp, 400,
                       "User is not associated with any store", "")
            /\ UNCHANGED <<menus, menu_seq, body>>
       ELSE IF MenuKeywordsClash(inp)
       THEN /\ Respond("create_menu", u, NULL, inp, 500, "TypeError", "")
            /\ UNCHANGED <<menus, menu_seq, body>>
       ELSE /\ menu_seq < MaxMenus
            /\ menus' = [m \in DOMAIN menus \cup {menu_seq + 1} |->
                            IF m = menu_seq + 1 THEN NewMenu(u, inp) ELSE menus[m]]
            /\ menu_seq' = menu_seq + 1
            /\ Respond("create_menu", u, menu_seq + 1, inp, 200, "", "")
            /\ body' = <<NewMenu(u, inp)>>
    /\ UNCHANGED <<orders, order_seq, writes, today>>

\* ------------------------------------------------------------- aggregation
RECURSIVE SumTotal(_, _)
\* sum(o.total_price for o in rows)
SumTotal(tbl, S) ==
    IF S = {} THEN 0
    ELSE LET o == CHOOSE x \in S : TRUE
         IN  tbl[o].total_price + SumTotal(tbl, S \ {o})

\* (mutant) the quotient cut to two decimals instead of rounded
Round2_Down(n, d) ==
    LET a == IF n < 0 THEN 0 - n ELSE n
        q == (100 * a) \div d
    IN  IF n < 0 THEN 0 - q ELSE q

\* round(n / d, 2) in hundredths, n of either sign and d > 0: the quotient
\* 100n/d rounded to the nearest integer, a tie to the even one
Round2(n, d) ==
    LET a == IF n < 0 THEN 0 - n ELSE n
        q == (100 * a) \div d
        r == (100 * a) % d
        m == IF 2 * r < d THEN q
             ELSE IF 2 * r > d THEN q + 1
             ELSE IF q % 2 = 0 THEN q ELSE q + 1
    IN  IF n < 0 THEN 0 - m ELSE m

RECURSIVE Perms(_)
\* all orderings of a finite set
Perms(S) ==
    IF S = {} THEN {<<>>}
    ELSE UNION {{<<x>> \o p : p \in Perms(S \ {x})} : x \in S}

Min(a, b) == IF a <= b THEN a ELSE b

\* (mutant) the day's orders of every store
OrdersBetween_AnyStore(tbl, store, lo, hi) ==
    {o \in DOMAIN tbl : SeqLeq(lo, tbl[o].ordered_at) /\ SeqLeq(tbl[o].ordered_at, hi)}

\* Order.store_id == store_id, Order.ordered_at >= lo, Order.ordered_at <= hi
OrdersBetween(tbl, store, lo, hi) ==
    {o \in DOMAIN tbl :
        /\ tbl[o].store_id = store
        /\ SeqLeq(lo, tbl[o].ordered_at)
        /\ SeqLeq(tbl[o].ordered_at, hi)}

\* (mutant) the sales sum with the cancelled orders left in
NotCancelled_All(tbl, S) == S

WithStatus(tbl, S, st) == {o \in S : tbl[o].status = st}

NotCancelled(tbl, S) == {o \in S : tbl[o].status # "cancelled"}

\* the rows of the popular-menu query: the day's orders of the store that are
\* not cancelled, joined to their menu
PopularRows(tbl, mtbl, store, day) ==
    {o \in DOMAIN tbl :
        /\ tbl[o].menu_id \in DOMAIN mtbl
        /\ tbl[o].store_id = store
        /\ SeqLeq(At(day, MinTime), tbl[o].ordered_at)
        /\ SeqLeq(tbl[o].ordered_at, At(day, MaxTime))
        /\ tbl[o].status # "cancelled"}

\* one group of GROUP BY Order.menu_id, Menu.name
PopularMenu(tbl, mtbl, rows, mid) ==
    LET g == {o \in rows : tbl[o].menu_id = mid}
    IN  [menu_id |-> mid, menu_name |-> mtbl[mid].name,
         order_count |-> Cardinality(g), total_revenue |-> SumTotal(tbl, g)]

PopularLimit == 3

\* (mutant) the ranking without its ORDER BY
PopularMenus_Unordered(tbl, mtbl, store, day) ==
    LET rows == PopularRows(tbl, mtbl, store, day)
        groups == {PopularMenu(tbl, mtbl, rows, tbl[o].menu_id) : o \in rows}
    IN  {SubSeq(p, 1, Min(PopularLimit, Cardinality(groups))) : p \in Perms(groups)}

\* ORDER BY order_count DESC LIMIT 3: every list the database may return,
\* the order among equal counts being its choice
PopularMenus(tbl, mtbl, store, day) ==
    LET rows == PopularRows(tbl, mtbl, store, day)
        groups == {PopularMenu(tbl, mtbl, rows, tbl[o].menu_id) : o \in rows}
        sorted == {p \in Perms(groups) :
                     \A i \in 1..(Cardinality(groups) - 1) :
                        p[i].order_count >= p[i + 1].order_count}
    IN  {SubSeq(p, 1, Min(PopularLimit, Cardinality(groups))) : p \in sorted}

HoursOfDay == 24

\* hourly_orders_dict: the hours some order of today falls in, with their counts
HourlyOrdersDict(tbl, today_orders) ==
    [h \in {tbl[o].ordered_at[2] : o \in today_orders} |->
        Cardinality({o \in today_orders : tbl[o].ordered_at[2] = h})]

\* (mutant) the entries of the dictionary only, the empty hours left out
HourlyOrders_Busy(tbl, today_orders) ==
    SelectSeq([i \in 1..HoursOfDay |->
                  [hour |-> i - 1,
                   order_count |->
                       IF i - 1 \in DOMAIN HourlyOrdersDict(tbl, today_orders)
                       THEN HourlyOrdersDict(tbl, today_orders)[i - 1] ELSE 0]],
              LAMBDA e : e.order_count > 0)

\* [HourlyOrderData(hour, hourly_orders_dict.get(hour, 0)) for hour in range(24)]
HourlyOrders(tbl, today_orders) ==
    [i \in 1..HoursOfDay |->
        [hour |-> i - 1,
         order_count |->
             IF i - 1 \in DOMAIN HourlyOrdersDict(tbl, today_orders)
             THEN HourlyOrdersDict(tbl, today_orders)[i - 1] ELSE 0]]

\* the dictionary get_dashboard returns, given the popular-menu rows
Dashboard(tbl, store, day, popular) ==
    LET today_orders == OrdersBetween(tbl, store, At(day, MinTime), At(day, MaxTime))
        total_orders == Cardinality(today_orders)
        cancelled_orders == Cardinality(WithStatus(tbl, today_orders, "cancelled"))
        total_sales == SumTotal(tbl, NotCancelled(tbl, today_orders))
        completed_order_count == total_orders - cancelled_orders
        yesterday_orders ==
            OrdersBetween(tbl, store, At(day - 1, MinTime), At(day - 1, MaxTime))
        yesterday_orders_count == Cardinality(yesterday_orders)
        yesterday_revenue == SumTotal(tbl, NotCancelled(tbl, yesterday_orders))
        orders_change == total_orders - yesterday_orders_count
        revenue_change == total_sales - yesterday_revenue
    IN  [ total_orders |-> total_orders,
          pending_orders |-> Cardinality(WithStatus(tbl, today_orders, "pending")),
          ready_orders |-> Cardinality(WithStatus(tbl, today_orders, "ready")),
          completed_orders |-> Cardinality(WithStatus(tbl, today_orders, "completed")),
          cancelled_orders |-> cancelled_orders,
          total_sales |-> total_sales,
          today_revenue |-> total_sales,
          average_order_value |->
              IF completed_order_count > 0
              THEN Round2(total_sales, completed_order_count) ELSE 0,
          yesterday_comparison |->
              [ orders_change |-> orders_change,
                orders_change_percent |->
                    IF yesterday_orders_count > 0
                    THEN Round2(orders_change * 100, yesterday_orders_count) ELSE 0,
                revenue_change |-> revenue_change,
                revenue_change_percent |->
                    IF yesterday_revenue > 0
                    THEN Round2(revenue_change * 100, yesterday_revenue) ELSE 0 ],
          popular_menus |-> popular,
          hourly_orders |-> HourlyOrders(tbl, today_orders) ]

\* GET /store/dashboard
get_dashboard(u) ==
    /\ Idle
    /\ IF ~require_role(u, AnyStoreRole)
       THEN /\ Respond("get_dashboard", u, NULL, "", 403, "Forbidden", "")
            /\ body' = <<>>
       ELSE IF NoStore(u)
       THEN /\ Respond("get_dashboard", u, NULL, "", 400,
                       "User is not associated with any store", "")
            /\ body' = <<>>
       ELSE /\ Respond("get_dashboard", u, NULL, "", 200, "", "")
            /\ \E popular \in PopularMenus(orders, menus, Users[u].store_id, today) :
                  body' = <<Dashboard(orders, Users[u].store_id, today, popular)>>
    /\ UNCHANGED <<menus, menu_seq, orders, order_seq, writes, today>>

\* the days the weekly chart covers besides today
WeekBack == 6

\* (mutant) the day's revenue with the cancelled orders left in
DayRevenue_WithCancelled(tbl, store, day, d) ==
    SumTotal(tbl, {o \in DOMAIN tbl :
                      /\ tbl[o].store_id = store
                      /\ SeqLeq(At(day - WeekBack, MinTime), tbl[o].ordered_at)
                      /\ SeqLeq(tbl[o].ordered_at, At(day, MaxTime))
                      /\ tbl[o].ordered_at[1] = d})

\* the revenue of one day of the weekly query: the store's orders of the
\* last seven days that are not cancelled, grouped by func.date(ordered_at)
DayRevenue(tbl, store, day, d) ==
    SumTotal(tbl, {o \in DOMAIN tbl :
                      /\ tbl[o].store_id = store
                      /\ SeqLeq(At(day - WeekBack, MinTime), tbl[o].ordered_at)
                      /\ SeqLeq(tbl[o].ordered_at, At(day, MaxTime))
                      /\ tbl[o].status # "cancelled"
                      /\ tbl[o].ordered_at[1] = d})

\* the labels and the data of get_weekly_sales, oldest day first
WeeklySales(tbl, store, day) ==
    [ labels |-> [i \in 1..(WeekBack + 1) |-> day - (WeekBack + 1 - i)],
      data |-> [i \in 1..(WeekBack + 1) |->
                   DayRevenue(tbl, store, day, day - (WeekBack + 1 - i))] ]

\* tables with orders of today, of the first day of the weekly chart and of
\* the day before it
InitWeek == QueryTables({1, 2}, {"completed", "cancelled"}, {0, WeekBack, WeekBack + 1})

\* GET /store/dashboard/weekly-sales
get_weekly_sales(u) ==
    /\ Idle
    /\ IF ~require_role(u, AnyStoreRole)
       THEN /\ Respond("get_weekly_sales", u, NULL, "", 403, "Forbidden", "")
            /\ body' = <<>>
       ELSE IF NoStore(u)
       THEN /\ Respond("get_weekly_sales", u, NULL, "", 400,
                       "User is not associated with any store", "")
            /\ body' = <<>>
       ELSE /\ Respond("get_weekly_sales", u, NULL, "", 200, "", "")
            /\ body' = <<WeeklySales(orders, Users[u].store_id, today)>>
    /\ UNCHANGED <<menus, menu_seq, orders, order_seq, writes, today>>

\* ---------------------------------------------------------------- listings
\* ILIKE folds case: the letters the names hold in upper case
Lower(c) ==
    CASE c = "A" -> "a" [] c = "B" -> "b" [] c = "K" -> "k"
      [] c = "I" -> "i" [] c = "N" -> "n" [] c = "O" -> "o" [] c = "S" -> "s"
      [] OTHER -> c

RECURSIVE Like(_, _)
\* text LIKE pattern, case folded: % stands for any run of characters and
\* _ for any one character
Like(p, t) ==
    IF p = <<>> THEN t = <<>>
    ELSE IF Head(p) = "%"
    THEN Like(Tail(p), t) \/ (t # <<>> /\ Like(p, Tail(t)))
    ELSE /\ t # <<>>
         /\ (Head(p) = "_" \/ Lower(Head(p)) = Lower(Head(t)))
         /\ Like(Tail(p), Tail(t))

\* column.ilike(f"%{q}%")
ilike(t, q) == Like(<<"%">> \o q \o <<"%">>, t)

\* the days a date string of the month can name
DaysInMonth == 31

\* datetime.strptime(s, "%Y-%m-%d") succeeds: s is <<d>>, d its day field
ValidDate(s) == s[1] >= 1 /\ s[1] <= DaysInMonth

\* end_dt.replace(hour=23, minute=59, second=59)
EndOfDay == <<23, 59, 59, 0>>

\* (mutant) the listing's base query without its store filter
StoreFilter_None(row, store) == TRUE

\* Order.store_id == current_user.store_id / Menu.store_id == current_user.store_id
StoreFilter(row, store) == row.store_id = store

\* the rows the filters of get_all_orders keep
MatchedOrders(store, qy) ==
    {o \in DOMAIN orders :
        /\ StoreFilter(orders[o], store)
        /\ (qy.status # <<>> => \E i \in 1..Len(qy.status) : orders[o].status = qy.status[i])
        /\ (qy.start_date # <<>> => SeqLeq(At(qy.start_date[1], MinTime), orders[o].ordered_at))
        /\ (qy.end_date # <<>> => SeqLeq(orders[o].ordered_at, At(qy.end_date[1], EndOfDay)))
        /\ (qy.q # <<>> =>
               /\ orders[o].user_id \in DOMAIN Users
               /\ orders[o].menu_id \in DOMAIN menus
               /\ \/ ilike(Users[orders[o].user_id].full_name, qy.q)
                  \/ ilike(Users[orders[o].user_id].username, qy.q)
                  \/ ilike(menus[orders[o].menu_id].name, qy.q))}

\* ORDER BY of get_all_orders: a may come before b
OrderedBefore(a, b, sort) ==
    CASE sort = "oldest" -> SeqLeq(orders[a].ordered_at, orders[b].ordered_at)
      [] sort = "price_high" -> orders[a].total_price >= orders[b].total_price
      [] sort = "price_low" -> orders[a].total_price <= orders[b].total_price
      [] OTHER -> SeqLeq(orders[b].ordered_at, orders[a].ordered_at)

\* (mutant) the page cut without its offset
PageOf_FirstPage(s, page, per_page) == SubSeq(s, 1, Min(per_page, Len(s)))

\* query.offset((page - 1) * per_page).limit(per_page)
PageOf(s, page, per_page) ==
    SubSeq(s, (page - 1) * per_page + 1, Min(page * per_page, Len(s)))

\* an order as the response carries it, with its menu and its user
OrderWithMenu(o) ==
    [ id |-> o,
      store_id |-> orders[o].store_id,
      user_id |-> orders[o].user_id,
      menu_id |-> orders[o].menu_id,
      status |-> orders[o].status,
      total_price |-> orders[o].total_price,
      ordered_at |-> orders[o].ordered_at,
      menu |-> IF orders[o].menu_id \in DOMAIN menus
               THEN <<menus[orders[o].menu_id]>> ELSE <<>> ]

\* page from 1, per_page from 1 to the endpoint's maximum
PageQuery(qy, max_per_page) ==
    qy.page >= 1 /\ qy.per_page >= 1 /\ qy.per_page <= max_per_page

MaxPerPageOrders == 1000
MaxPerPageMenus == 100

\* GET /store/orders
get_all_orders(u, qy) ==
    /\ Idle
    /\ IF ~require_role(u, AnyStoreRole)
       THEN /\ Respond("get_all_orders", u, NULL, qy, 403, "Forbidden", "")
            /\ body' = <<>>
       ELSE IF ~PageQuery(qy, MaxPerPageOrders)
       THEN /\ Respond("get_all_orders", u, NULL, qy, 422, "Unprocessable", "")
            /\ body' = <<>>
       ELSE IF NoStore(u)
       THEN /\ Respond("get_all_orders", u, NULL, qy, 400,
                       "User is not associated with any store", "")
            /\ body' = <<>>
       ELSE IF qy.start_date # <<>> /\ ~ValidDate(qy.start_date)
       THEN /\ Respond("get_all_orders", u, NULL, qy, 400,
                       "Invalid start_date format. Use YYYY-MM-DD", "")
            /\ body' = <<>>
       ELSE IF qy.end_date # <<>> /\ ~ValidDate(qy.end_date)
       THEN /\ Respond("get_all_orders", u, NULL, qy, 400,
                       "Invalid end_date format. Use YYYY-MM-DD", "")
            /\ body' = <<>>
       ELSE LET matched == MatchedOrders(Users[u].store_id, qy)
            IN  /\ Respond("get_all_orders", u, NULL, qy, 200, "", "")
                /\ \E s \in {p \in Perms(matched) :
                               \A i \in 1..(Cardinality(matched) - 1) :
                                  OrderedBefore(p[i], p[i + 1], qy.sort)} :
                      LET rows == PageOf(s, qy.page, qy.per_page)
                      IN  body' = <<[orders |-> [i \in DOMAIN rows |-> OrderWithMenu(rows[i])],
                                     total |-> Cardinality(matched)]>>
    /\ UNCHANGED <<menus, menu_seq, orders, order_seq, writes, today>>

\* a menu as the response carries it
MenuWithId(m) ==
    [ id |-> m, name |-> menus[m].name, price |-> menus[m].price,
      is_available |-> menus[m].is_available, store_id |-> menus[m].store_id ]

\* the rows the filters of get_all_menus keep
MatchedMenus(store, qy) ==
    {m \in DOMAIN menus :
        /\ StoreFilter(menus[m], store)
        /\ (qy.is_available # <<>> => menus[m].is_available = qy.is_available[1])}

\* GET /store/menus: the query has no ORDER BY, the order of the rows is the
\* database's choice
get_all_menus(u, qy) ==
    /\ Idle
    /\ IF ~require_role(u, AnyStoreRole)
       THEN /\ Respond("get_all_menus", u, NULL, qy, 403, "Forbidden", "")
            /\ body' = <<>>
       ELSE IF ~PageQuery(qy, MaxPerPageMenus)
       THEN /\ Respond("get_all_menus", u, NULL, qy, 422, "Unprocessable", "")
            /\ body' = <<>>
       ELSE IF NoStore(u)
       THEN /\ Respond("get_all_menus", u, NULL, qy, 400,
                       "User is not associated with any store", "")
            /\ body' = <<>>
       ELSE LET matched == MatchedMenus(Users[u].store_id, qy)
            IN  /\ Respond("get_all_menus", u, NULL, qy, 200, "", "")
                /\ \E s \in Perms(matched) :
                      LET rows == PageOf(s, qy.page, qy.per_page)
                      IN  body' = <<[menus |-> [i \in DOMAIN rows |-> MenuWithId(rows[i])],
                                     total |-> Cardinality(matched)]>>
    /\ UNCHANGED <<menus, menu_seq, orders, order_seq, writes, today>>

\* ------------------------------------------------------------ order history
MaxPerPageHistory == 100

\* (mutant) the history query without its user filter
HistoryFilter_AnyUser(row, u) == TRUE

\* Order.user_id == current_user.id
HistoryFilter(row, u) == row.user_id = u

\* the rows of the history query: the caller's orders joined to their menu,
\* of the status asked for when one is given
MatchedHistory(u, qy) ==
    {o \in DOMAIN orders :
        /\ orders[o].menu_id \in DOMAIN menus
        /\ HistoryFilter(orders[o], u)
        /\ (qy.status_filter # <<>> => orders[o].status = qy.status_filter[1])}

\* OrderHistoryItem
OrderHistoryItem(o) ==
    [ id |-> o,
      quantity |-> orders[o].quantity,
      total_price |-> orders[o].total_price,
      status |-> orders[o].status,
      ordered_at |-> orders[o].ordered_at,
      updated_at |-> orders[o].updated_at,
      menu_id |-> orders[o].menu_id,
      menu_name |-> menus[orders[o].menu_id].name,
      menu_price |-> menus[orders[o].menu_id].price ]

\* GET /customer/orders: ORDER BY ordered_at DESC, the order among rows of
\* one ordered_at being the database's choice
get_my_orders(u, qy) ==
    /\ Idle
    /\ IF ~get_current_customer(u)
       THEN /\ Respond("get_my_orders", u, NULL, qy, 403, "Forbidden", "")
            /\ body' = <<>>
       ELSE IF ~PageQuery(qy, MaxPerPageHistory)
       THEN /\ Respond("get_my_orders", u, NULL, qy, 422, "Unprocessable", "")
            /\ body' = <<>>
       ELSE LET matched == MatchedHistory(u, qy)
            IN  /\ Respond("get_my_orders", u, NULL, qy, 200, "", "")
                /\ \E s \in {p \in Perms(matched) :
                               \A i \in 1..(Cardinality(matched) - 1) :
                                  SeqLeq(orders[p[i + 1]].ordered_at,
                                         orders[p[i]].ordered_at)} :
                      LET rows == PageOf(s, qy.page, qy.per_page)
                      IN  body' = <<[orders |->
                                        [i \in DOMAIN rows |-> OrderHistoryItem(rows[i])],
                                     total |-> Cardinality(matched)]>>
    /\ UNCHANGED <<menus, menu_seq, orders, order_seq, writes, today>>

\* ----------------------------------------------------------- customer menus
\* Menu.name.contains(search): LIKE '%' || search || '%'.  Whether LIKE folds
\* case is the database's affair; the search texts of the model hold no
\* upper-case letter of a name
contains(t, search) == Like(<<"%">> \o search \o <<"%">>, t)

\* the rows the filters of get_menus keep
MatchedCustomerMenus(qy) ==
    {m \in DOMAIN menus :
        /\ menus[m].is_available = (IF qy.is_available # <<>> THEN qy.is_available[1] ELSE TRUE)
        /\ (qy.price_min # <<>> => menus[m].price >= qy.price_min[1])
        /\ (qy.price_max # <<>> => menus[m].price <= qy.price_max[1])
        /\ (qy.search # <<>> => contains(menus[m].name, qy.search))}

\* GET /customer/menus: the query has no ORDER BY
get_menus(u, qy) ==
    /\ Idle
    /\ IF ~get_current_customer(u)
       THEN /\ Respond("get_menus", u, NULL, qy, 403, "Forbidden", "")
            /\ body' = <<>>
       ELSE IF ~PageQuery(qy, MaxPerPageMenus)
       THEN /\ Respond("get_menus", u, NULL, qy, 422, "Unprocessable", "")
            /\ body' = <<>>
       ELSE LET matched == MatchedCustomerMenus(qy)
            IN  /\ Respond("get_menus", u, NULL, qy, 200, "", "")
                /\ \E s \in Perms(matched) :
                      LET rows == PageOf(s, qy.page, qy.per_page)
                      IN  body' = <<[menus |-> [i \in DOMAIN rows |-> MenuWithId(rows[i])],
                                     total |-> Cardinality(matched)]>>
    /\ UNCHANGED <<menus, menu_seq, orders, order_seq, writes, today>>

\* GET /customer/menus/{menu_id}
get_menu(u, mid) ==
    /\ Idle
    /\ IF ~get_current_customer(u)
       THEN /\ Respond("get_menu", u, mid, "", 403, "Forbidden", "")
            /\ body' = <<>>
       ELSE IF ~AvailableMenu(mid)
       THEN /\ Respond("get_menu", u, mid, "", 404, "Menu not found", "")
            /\ body' = <<>>
       ELSE /\ Respond("get_menu", u, mid, "", 200, "", "")
            /\ body' = <<MenuWithId(mid)>>
    /\ UNCHANGED <<menus, menu_seq, orders, order_seq, writes, today>>

\* ------------------------------------------------------------ sales report
ReportReaders == {"owner", "manager"}

\* timedelta(days=...) of the default start date of each period
ReportDaysBack(period) ==
    CASE period = "daily" -> 7
      [] period = "weekly" -> 30
      [] OTHER -> 90

RECURSIVE SumQuantity(_, _)
\* func.sum(Order.quantity) over rows
SumQuantity(tbl, S) ==
    IF S = {} THEN 0
    ELSE LET o == CHOOSE x \in S : TRUE
         IN  tbl[o].quantity + SumQuantity(tbl, S \ {o})

\* the filter every query of the report repeats: the store's orders between
\* lo and hi that are not cancelled
ReportRows(tbl, store, lo, hi) == NotCancelled(tbl, OrdersBetween(tbl, store, lo, hi))

\* Menu.join(Order): the rows whose menu exists
JoinedToMenu(tbl, mtbl, S) == {o \in S : tbl[o].menu_id \in DOMAIN mtbl}

\* the names .first() may return for one day, <<>> standing for None: the
\* name groups of the day with the largest summed quantity
DayPopular(tbl, mtbl, store, d) ==
    LET rows == JoinedToMenu(tbl, mtbl,
                    ReportRows(tbl, store, At(d, MinTime), At(d, MaxTime)))
        named(n) == {o \in rows : mtbl[tbl[o].menu_id].name = n}
        names == {mtbl[tbl[o].menu_id].name : o \in rows}
    IN  IF rows = {} THEN {<<>>}
        ELSE {n \in names :
                \A m \in names :
                    SumQuantity(tbl, named(n)) >= SumQuantity(tbl, named(m))}

\* one entry of daily_reports
DailyReport(tbl, store, lo, hi, d, popular_menu) ==
    [ date |-> d,
      total_orders |->
          Cardinality(ReportRows(tbl, store, lo, hi)
                          \cap OrdersBetween(tbl, store, At(d, MinTime), At(d, MaxTime))),
      total_sales |->
          SumTotal(tbl, ReportRows(tbl, store, At(d, MinTime), At(d, MaxTime))),
      popular_menu |-> popular_menu ]

RECURSIVE DailyReports(_, _, _, _, _, _, _)
\* the while loop from current_date to end_date_obj: every list it may build
DailyReports(tbl, mtbl, store, lo, hi, current_date, end_date_obj) ==
    IF current_date > end_date_obj THEN {<<>>}
    ELSE {<<DailyReport(tbl, store, lo, hi, current_date, pm)>> \o rest :
             pm \in DayPopular(tbl, mtbl, store, current_date),
             rest \in DailyReports(tbl, mtbl, store, lo, hi,
                                   current_date + 1, end_date_obj)}

\* one group of GROUP BY Menu.id, Menu.name
MenuReport(tbl, mtbl, rows, mid) ==
    LET g == {o \in rows : tbl[o].menu_id = mid}
    IN  [menu_id |-> mid, menu_name |-> mtbl[mid].name,
         total_quantity |-> SumQuantity(tbl, g), total_sales |-> SumTotal(tbl, g)]

\* ORDER BY total_sales DESC: every list the database may return
MenuReports(tbl, mtbl, store, lo, hi) ==
    LET rows == JoinedToMenu(tbl, mtbl, ReportRows(tbl, store, lo, hi))
        groups == {MenuReport(tbl, mtbl, rows, tbl[o].menu_id) : o \in rows}
    IN  {p \in Perms(groups) :
            \A i \in 1..(Cardinality(groups) - 1) :
                p[i].total_sales >= p[i + 1].total_sales}

\* the first and the last day of the report: the dates given, else the
\* period's default start and today
ReportStart(qy, day) ==
    IF qy.start_date = <<>> THEN <<day - ReportDaysBack(qy.period)>> ELSE qy.start_date

ReportEnd(qy, day) == IF qy.end_date = <<>> THEN <<day>> ELSE qy.end_date

\* the dictionaries get_sales_report may return
SalesReports(tbl, mtbl, store, qy, day) ==
    LET start_date == ReportStart(qy, day)
        end_date == ReportEnd(qy, day)
        start_dt == At(start_date[1], MinTime)
        end_dt == At(end_date[1], EndOfDay)
    IN  {[ period |-> qy.period,
           start_date |-> start_date,
           end_date |-> end_date,
           daily_reports |-> daily,
           menu_reports |-> ranked,
           total_sales |-> SumTotal(tbl, ReportRows(tbl, store, start_dt, end_dt)),
           total_orders |-> Cardinality(ReportRows(tbl, store, start_dt, end_dt)) ] :
           daily \in DailyReports(tbl, mtbl, store, start_dt, end_dt,
                                  start_date[1], end_date[1]),
           ranked \in MenuReports(tbl, mtbl, store, start_dt, end_dt)}

\* GET /store/reports/sales
get_sales_report(u, qy) ==
    /\ Idle
    /\ IF ~require_role(u, ReportReaders)
       THEN /\ Respond("get_sales_report", u, NULL, qy, 403, "Forbidden", "")
            /\ body' = <<>>
       ELSE IF NoStore(u)
       THEN /\ Respond("get_sales_report", u, NULL, qy, 400,
                       "User is not associated with any store", "")
            /\ body' = <<>>
       ELSE IF \/ qy.start_date # <<>> /\ ~ValidDate(qy.start_date)
               \/ qy.end_date # <<>> /\ ~ValidDate(qy.end_date)
       THEN /\ Respond("get_sales_report", u, NULL, qy, 400,
                       "Invalid date format. Use YYYY-MM-DD", "")
            /\ body' = <<>>
       ELSE /\ Respond("get_sales_report", u, NULL, qy, 200, "", "")
            /\ \E report \in SalesReports(orders, menus, Users[u].store_id, qy, today) :
                  body' = <<report>>
    /\ UNCHANGED <<menus, menu_seq, orders, order_seq, writes, today>>

\* ------------------------------------------------------------------ inputs
\* the ids of the order rows, and one id no row has
OrderIdInputs == 1..(NumSeedOrders + 1)

\* the ids of the menu rows, and one id no row has
MenuIdInputs == 1..(Len(SeedMenus) + 1)

StatusInputs == Statuses \cup {BadStatus}

\* bodies of POST /customer/orders: quantities inside and on both sides of
\* the range, the store_id of either store
OrderInputs == [menu_id : MenuIdInputs, quantity : {0, 2, 11}, store_id : StoreIds]

\* bodies of PUT /store/menus/{menu_id}, one of them with a price below 1
MenuUpdateInputs ==
    {[price |-> 700], [price |-> 0], [is_available |-> FALSE], [is_available |-> TRUE]}

\* bodies of POST /store/menus, half of them with a price below 1
MenuInputs ==
    [name : {<<"E", "b", "i">>}, price : {0, 500}, is_available : {TRUE},
     store_id : StoreIds]

\* query strings of GET /store/orders; a date string is <<its day field>>,
\* status the list its split gives, q the characters of the search text and an
\* absent parameter <<>>.  The second family holds the dates and pages the
\* handler refuses.
OrderQueries ==
    [status : {<<>>, <<"completed">>},
     start_date : {<<>>},
     end_date : {<<>>, <<FixtureDay - 1>>},
     q : {<<>>, <<"_", "A">>, <<"_", "K", "I">>},
     sort : {"newest", "oldest", "price_high", "price_low"},
     page : {1, 2},
     per_page : {1}]
    \cup
    [status : {<<>>},
     start_date : {<<FixtureDay>>, <<DaysInMonth + 1>>},
     end_date : {<<>>, <<DaysInMonth + 1>>},
     q : {<<>>},
     sort : {"newest"},
     page : {0, 1},
     per_page : {2}]

\* query strings of GET /store/menus
MenuQueries == [is_available : {<<>>, <<TRUE>>, <<FALSE>>}, page : {0, 1, 2}, per_page : {1}]

\* both customers, the owners, the manager, the staff member and the account
\* without a store
StatusCallers == UserIds

\* the customer and a member of the store of order 1
RaceCallers == {1, 3}

\* a customer, the owner and the manager of store 1, the staff member of store 2
MenuCallers == {1, 3, 5, 6}

\* the owners of the two stores
StaffCallers == {3, 4}

\* a member of each store, the account without a store and a customer
QueryCallers == {1, 3, 6, 7}

\* a member of each store
ListCallers == {3, 6}

\* query strings of GET /store/reports/sales: each period with and without
\* dates, one of the dates no calendar has
ReportQueries ==
    [period : {"daily", "weekly", "monthly"},
     start_date : {<<>>, <<FixtureDay - 1>>, <<DaysInMonth + 1>>},
     end_date : {<<>>, <<FixtureDay - 1>>}]

\* the owner of store 2 and the owner without a store
EndpointCallers == {4, 7}

\* the owner of the store whose menus are ranked
RankedCallers == {3}

\* query strings of GET /customer/orders: with and without a status, both
\* pages of one row, a page of two rows and a page number the endpoint refuses
HistoryQueries ==
    [status_filter : {<<>>, <<"completed">>}, page : {1, 2}, per_page : {1}]
    \cup
    [status_filter : {<<>>}, page : {0, 1}, per_page : {2}]

\* both customers and a store owner
HistoryCallers == {1, 2, 3}

\* query strings of GET /customer/menus
CustomerMenuQueries ==
    [is_available : {<<>>, <<TRUE>>, <<FALSE>>},
     price_min : {<<>>, <<600>>},
     price_max : {<<>>},
     search : {<<>>, <<"a", "r">>},
     page : {1},
     per_page : {2}]
    \cup
    [is_available : {<<>>},
     price_min : {<<>>},
     price_max : {<<600>>},
     search : {<<>>},
     page : {0, 2},
     per_page : {1}]

\* a customer and the owner of store 1
ShopCallers == {1, 3}

\* query strings of GET /store/orders that ask for each sort key and for pages
\* of one and of two orders
SortedPageQueries ==
    [status : {<<>>}, start_date : {<<>>}, end_date : {<<>>}, q : {<<>>},
     sort : {"newest", "oldest", "price_high", "price_low"},
     page : {1, 2}, per_page : {1, 2}]

\* a customer and the owner of the store of the customer's order
WriteCallers == {1, 3}

\* query strings of GET /store/orders that bound the listing by dates
DatedOrderQueries ==
    [status : {<<>>}, start_date : {<<>>, <<EdgeDay>>}, end_date : {<<>>, <<EdgeDay>>},
     q : {<<>>}, sort : {"newest"}, page : {1}, per_page : {MaxPerPageOrders}]

\* query strings of GET /store/reports/sales for one day, for two days and
\* for the default range
DatedReportQueries ==
    [period : {"daily"}, start_date : {<<>>, <<EdgeDay - 1>>, <<EdgeDay>>},
     end_date : {<<>>, <<EdgeDay>>}]

\* ---------------------------------------------------------- specifications
\* the order lifecycle, one request at a time
Next ==
    \/ Idle /\ \E u \in StatusCallers, oid \in OrderIdInputs : cancel_order(u, oid)
    \/ Idle /\ \E u \in StatusCallers, oid \in OrderIdInputs, t \in StatusInputs :
          update_order_status(u, oid, t)
    \/ Idle /\ \E u \in StatusCallers, oid \in OrderIdInputs : get_my_order(u, oid)
    \/ deliver

Spec == Init /\ [][Next]_vars

\* the order lifecycle of orders that start as pending
SpecPending == InitPending /\ [][Next]_vars

\* the order lifecycle on concurrent workers
NextRace ==
    \/ Idle /\ \E u \in RaceCallers, oid \in OrderIdInputs : cancel_order_begin(u, oid)
    \/ Idle /\ \E w \in writes : cancel_order_commit(w)
    \/ Idle /\ \E u \in RaceCallers, oid \in OrderIdInputs, t \in StatusInputs :
          update_order_status_begin(u, oid, t)
    \/ Idle /\ \E w \in writes : update_order_status_commit(w)
    \/ deliver

SpecRace == Init /\ [][NextRace]_vars

\* ordering, and the management of the menu catalogue
NextMenu ==
    \/ Idle /\ \E u \in MenuCallers, inp \in OrderInputs : create_order(u, inp)
    \/ Idle /\ \E u \in MenuCallers, mid \in MenuIdInputs, upd \in MenuUpdateInputs :
          update_menu(u, mid, upd)
    \/ Idle /\ \E u \in MenuCallers, mid \in MenuIdInputs : delete_menu(u, mid)
    \/ Idle /\ \E u \in MenuCallers, inp \in MenuInputs : create_menu(u, inp)
    \/ deliver

SpecMenu == Init /\ [][NextMenu]_vars

\* the owners of two stores acting on orders and menus of either store
NextStaff ==
    \/ Idle /\ \E u \in StaffCallers, oid \in OrderIdInputs, t \in {"ready", "cancelled"} :
          update_order_status(u, oid, t)
    \/ Idle /\ \E u \in StaffCallers, mid \in MenuIdInputs, upd \in MenuUpdateInputs :
          update_menu(u, mid, upd)
    \/ Idle /\ \E u \in StaffCallers, mid \in MenuIdInputs : delete_menu(u, mid)
    \/ deliver

SpecStaff == Init /\ [][NextStaff]_vars

\* the dashboard's aggregation queries
NextAgg ==
    \/ Idle /\ \E u \in QueryCallers : get_dashboard(u)
    \/ Idle /\ \E u \in QueryCallers : get_weekly_sales(u)
    \/ deliver

SpecAgg == InitAgg /\ [][NextAgg]_vars

\* the dashboard and the weekly chart over orders in all six statuses
NextSix ==
    \/ Idle /\ \E u \in QueryCallers : get_dashboard(u)
    \/ Idle /\ \E u \in QueryCallers : get_weekly_sales(u)
    \/ deliver

SpecSix == InitSix /\ [][NextSix]_vars

\* the dashboard of a store with more menus sold than it ranks
NextRanked ==
    \/ Idle /\ \E u \in RankedCallers : get_dashboard(u)
    \/ deliver

SpecRanked == InitRanked /\ [][NextRanked]_vars

\* the weekly chart over orders inside and just outside its seven days
NextWeek ==
    \/ Idle /\ \E u \in QueryCallers : get_weekly_sales(u)
    \/ deliver

SpecWeek == InitWeek /\ [][NextWeek]_vars

\* the store's listings
NextList ==
    \/ Idle /\ \E u \in ListCallers, qy \in OrderQueries : get_all_orders(u, qy)
    \/ Idle /\ \E u \in ListCallers, qy \in MenuQueries : get_all_menus(u, qy)
    \/ deliver

SpecList == InitList /\ [][NextList]_vars

\* the customer's order history
NextHistory ==
    \/ Idle /\ \E u \in HistoryCallers, qy \in HistoryQueries : get_my_orders(u, qy)
    \/ deliver

SpecHistory == InitList /\ [][NextHistory]_vars

\* the menus a customer is shown while the owner of a store changes them
NextShop ==
    \/ Idle /\ \E u \in ShopCallers, qy \in CustomerMenuQueries : get_menus(u, qy)
    \/ Idle /\ \E u \in ShopCallers, mid \in MenuIdInputs : get_menu(u, mid)
    \/ Idle /\ \E u \in ShopCallers, mid \in MenuIdInputs, upd \in MenuUpdateInputs :
          update_menu(u, mid, upd)
    \/ Idle /\ \E u \in ShopCallers, mid \in MenuIdInputs : delete_menu(u, mid)
    \/ deliver

SpecShop == Init /\ [][NextShop]_vars

\* the store's order listing, page by page under each sort key
NextPages ==
    \/ Idle /\ \E u \in ListCallers, qy \in SortedPageQueries : get_all_orders(u, qy)
    \/ deliver

SpecPages == InitList /\ [][NextPages]_vars

\* every request of the API that writes
NextWrites ==
    \/ Idle /\ \E u \in WriteCallers, oid \in OrderIdInputs : cancel_order(u, oid)
    \/ Idle /\ \E u \in WriteCallers, oid \in OrderIdInputs, t \in StatusInputs :
          update_order_status(u, oid, t)
    \/ Idle /\ \E u \in WriteCallers, inp \in OrderInputs : create_order(u, inp)
    \/ Idle /\ \E u \in WriteCallers, inp \in MenuInputs : create_menu(u, inp)
    \/ Idle /\ \E u \in WriteCallers, mid \in MenuIdInputs, upd \in MenuUpdateInputs :
          update_menu(u, mid, upd)
    \/ Idle /\ \E u \in WriteCallers, mid \in MenuIdInputs : delete_menu(u, mid)
    \/ deliver

SpecWrites == Init /\ [][NextWrites]_vars

\* the store's dated queries over orders placed at the edges of a day
NextEdge ==
    \/ Idle /\ \E u \in ListCallers, qy \in DatedOrderQueries : get_all_orders(u, qy)
    \/ Idle /\ \E u \in ListCallers, qy \in DatedReportQueries : get_sales_report(u, qy)
    \/ deliver

SpecEdge == InitEdge /\ [][NextEdge]_vars

\* orders placed while menus are put on sale and deleted, on workers that may
\* overtake one another between a handler's queries and its commit
NextRefs ==
    \/ Idle /\ \E u \in WriteCallers, mid \in MenuIdInputs :
          create_order_begin(u, [menu_id |-> mid, quantity |-> 2, store_id |-> 1])
    \/ Idle /\ \E w \in writes : create_order_commit(w)
    \/ Idle /\ \E u \in WriteCallers, mid \in MenuIdInputs : delete_menu_begin(u, mid)
    \/ Idle /\ \E w \in writes : delete_menu_commit(w)
    \/ Idle /\ \E u \in WriteCallers, mid \in MenuIdInputs :
          update_menu(u, mid, [is_available |-> TRUE])
    \/ deliver

SpecRefs == Init /\ [][NextRefs]_vars

\* every /store endpoint, asked by an owner with a store and one without
NextStore ==
    \/ Idle /\ \E u \in EndpointCallers : get_dashboard(u)
    \/ Idle /\ \E u \in EndpointCallers : get_weekly_sales(u)
    \/ Idle /\ \E u \in EndpointCallers, qy \in OrderQueries : get_all_orders(u, qy)
    \/ Idle /\ \E u \in EndpointCallers, oid \in OrderIdInputs, t \in StatusInputs :
          update_order_status(u, oid, t)
    \/ Idle /\ \E u \in EndpointCallers, qy \in MenuQueries : get_all_menus(u, qy)
    \/ Idle /\ \E u \in EndpointCallers, inp \in MenuInputs : create_menu(u, inp)
    \/ Idle /\ \E u \in EndpointCallers, mid \in MenuIdInputs, upd \in MenuUpdateInputs :
          update_menu(u, mid, upd)
    \/ Idle /\ \E u \in EndpointCallers, mid \in MenuIdInputs : delete_menu(u, mid)
    \/ Idle /\ \E u \in EndpointCallers, qy \in ReportQueries : get_sales_report(u, qy)
    \/ deliver

SpecStore == Init /\ [][NextStore]_vars

\* =================================================================== claims
Terminal == {"completed", "cancelled"}

\* the step answers a request op (the response names its caller, target and
\* argument)
Answers(op) == resp'.op = op

FourStateTable ==
    {<<"pending", "ready">>, <<"pending", "cancelled">>, <<"ready", "completed">>}

C3_SixStateAccepted ==
    ( /\ resp.op = "update_order_status"
      /\ resp.detail # "Order not found"
      /\ <<resp.seen, resp.arg>> \in
            {<<"pending", "confirmed">>, <<"confirmed", "preparing">>} )
    => resp.code = 200 /\ orders[resp.target].status = resp.arg

\* C4: cancelOrder by the order's customer answers 200 and stores cancelled
\* when the stored status is pending; for every other stored status it answers
\* 400 and neither the order nor anything else stored changes.
C4_CancelOnlyFromPending ==
    [][LET u == resp'.caller
           oid == resp'.target
       IN  ( /\ Answers("cancel_order")
             /\ get_current_customer(u)
             /\ oid \in DOMAIN orders
             /\ orders[oid].user_id = u )
           => IF orders[oid].status = "pending"
              THEN resp'.code = 200 /\ orders'[oid].status = "cancelled"
              ELSE /\ resp'.code = 400
                   /\ orders' = orders
                   /\ menus' = menus]_vars

\* C4 witness: the customer's cancel of their confirmed order was answered 400
\* and the order is still confirmed.
C4_Witness ==
    /\ resp.op = "cancel_order"
    /\ resp.code = 400
    /\ resp.seen = "confirmed"
    /\ orders[resp.target].status = "confirmed"

\* C5: getOrder and cancelOrder of a customer on an order of another customer
\* answer 404 "Order not found" and carry no row, exactly as on an id no order
\* has, and no order changes.
C5_ForeignOrderIsNotFound ==
    [][LET u == resp'.caller
           oid == resp'.target
       IN  ( /\ (Answers("get_my_order") \/ Answers("cancel_order"))
             /\ get_current_customer(u)
             /\ (oid \notin DOMAIN orders \/ orders[oid].user_id # u) )
           => /\ resp'.code = 404
              /\ resp'.detail = "Order not found"
              /\ (Answers("get_my_order") => body' = <<>>)
              /\ orders' = orders]_vars

\* C5 witness: a customer's cancel of another customer's pending order was
\* answered 404 and that order is still pending.
C5_Witness ==
    /\ resp.op = "cancel_order"
    /\ resp.code = 404
    /\ resp.target \in DOMAIN orders
    /\ orders[resp.target].user_id # resp.caller
    /\ orders[resp.target].status = "pending"

\* the step answers a createOrder request of a customer whose body is valid
\* and whose menu exists and is on sale
CreatesOrder ==
    /\ Answers("create_order")
    /\ get_current_customer(resp'.caller)
    /\ OrderCreate(resp'.arg)
    /\ AvailableMenu(resp'.arg.menu_id)

\* C6 as claimed: createOrder on a menu on sale stores an order whose
\* total_price is the menu's price at that moment times the quantity, and no
\* later step changes the total_price of a stored order.
C6_TotalIsPriceAtCreationTimesQuantity ==
    [][/\ CreatesOrder =>
             /\ resp'.code = 200
             /\ \E o \in DOMAIN orders' \ DOMAIN orders :
                   /\ orders'[o].menu_id = resp'.arg.menu_id
                   /\ orders'[o].quantity = resp'.arg.quantity
                   /\ orders'[o].total_price =
                         menus[resp'.arg.menu_id].price * resp'.arg.quantity
       /\ \A o \in DOMAIN orders :
             o \in DOMAIN orders' /\ orders'[o].total_price = orders[o].total_price]_vars

\* C7 as claimed: createOrder on a menu on sale inserts an order whose
\* store_id is the store_id of that menu, whatever store_id the request
\* carries, and every stored order has the store_id of the menu it references.
C7_OrderStoreIsMenuStore ==
    [][/\ CreatesOrder =>
             /\ resp'.code = 200
             /\ \E o \in DOMAIN orders' \ DOMAIN orders :
                   /\ orders'[o].menu_id = resp'.arg.menu_id
                   /\ orders'[o].store_id = menus[resp'.arg.menu_id].store_id
       /\ \A o \in DOMAIN orders' :
             /\ orders'[o].store_id \in StoreIds
             /\ orders'[o].menu_id \in DOMAIN menus'
                   => orders'[o].store_id = menus'[orders'[o].menu_id].store_id]_vars

\* the rows of a table that belong to store S
OfStore(tbl, S) == [o \in {x \in DOMAIN tbl : tbl[x].store_id = S} |-> tbl[o]]

\* an order of the day that is not cancelled
SoldToday(o) == orders[o].ordered_at[1] = today /\ orders[o].status # "cancelled"

\* C8: what getDashboard and getWeeklySales return to a member of store A is
\* what they return when the orders table holds the orders of A and nothing
\* else: every figure is computed from the orders whose store_id is A, and no
\* order of another store, present, changed or absent, changes it.
C8_AggregationSeesOwnStoreOnly ==
    /\ (resp.op = "get_dashboard" /\ resp.code = 200) =>
          LET A == Users[resp.caller].store_id
              own == OfStore(orders, A)
          IN  /\ body[1].popular_menus \in PopularMenus(own, menus, A, today)
              /\ body[1] = Dashboard(own, A, today, body[1].popular_menus)
    /\ (resp.op = "get_weekly_sales" /\ resp.code = 200) =>
          LET A == Users[resp.caller].store_id
          IN  body[1] = WeeklySales(OfStore(orders, A), A, today)

\* C8 witness: a member of store 1 received a dashboard counting the two
\* orders store 1 sold today while another store holds an order sold today.
C8_Witness ==
    /\ resp.op = "get_dashboard"
    /\ resp.code = 200
    /\ Users[resp.caller].store_id = 1
    /\ body[1].total_orders = 2
    /\ body[1].total_sales > 0
    /\ Len(body[1].popular_menus) >= 1
    /\ \E o \in DOMAIN orders : orders[o].store_id = 2 /\ SoldToday(o)

\* C9: updateOrderStatus, updateMenu and deleteMenu, called by a store member
\* whose role admits the operation and whose request body is valid, on an
\* order or menu of another store answer 404 with the detail they give for an
\* id no row has, and change neither table.
C9_OtherStoreEntityIsNotFound ==
    [][LET u == resp'.caller
           id == resp'.target
           S == Users[u].store_id
       IN  /\ ( /\ Answers("update_order_status")
                /\ require_role(u, AnyStoreRole)
                /\ S # NULL
                /\ OrderStatusUpdate(resp'.arg)
                /\ (id \notin DOMAIN orders \/ orders[id].store_id # S) )
              => /\ resp'.code = 404
                 /\ resp'.detail = "Order not found"
                 /\ orders' = orders
                 /\ menus' = menus
           /\ ( /\ Answers("update_menu")
                /\ require_role(u, MenuWriters)
                /\ S # NULL
                /\ MenuUpdate(resp'.arg)
                /\ (id \notin DOMAIN menus \/ menus[id].store_id # S) )
              => /\ resp'.code = 404
                 /\ resp'.detail = "Menu not found"
                 /\ orders' = orders
                 /\ menus' = menus
           /\ ( /\ Answers("delete_menu")
                /\ require_role(u, MenuDeleters)
                /\ S # NULL
                /\ (id \notin DOMAIN menus \/ menus[id].store_id # S) )
              => /\ resp'.code = 404
                 /\ resp'.detail = "Menu not found"
                 /\ orders' = orders
                 /\ menus' = menus]_vars

\* C9 witness: the owner of one store asked to delete a menu of the other
\* store that no order references, was answered 404, and the menu is there.
C9_Witness ==
    /\ resp.op = "delete_menu"
    /\ resp.code = 404
    /\ resp.target \in DOMAIN menus
    /\ menus[resp.target].store_id # Users[resp.caller].store_id
    /\ ~existing_orders(resp.target)

\* C10: every order GET /store/orders returns to a member of store S has
\* store_id S, and so has the menu embedded in it; every menu GET /store/menus
\* returns has store_id S; for every filter, search text, sort key and page.
C10_ListingsSeeOwnStoreOnly ==
    /\ (resp.op = "get_all_orders" /\ resp.code = 200) =>
          \A i \in DOMAIN body[1].orders :
             /\ body[1].orders[i].store_id = Users[resp.caller].store_id
             /\ \A j \in DOMAIN body[1].orders[i].menu :
                   body[1].orders[i].menu[j].store_id = Users[resp.caller].store_id
    /\ (resp.op = "get_all_menus" /\ resp.code = 200) =>
          \A i \in DOMAIN body[1].menus :
             body[1].menus[i].store_id = Users[resp.caller].store_id

\* C10 witness: a search by text, sorted by price, returned its second page
\* with an order and its menu while the table holds an order of another store
\* in the same status and of the same day.
C10_Witness ==
    /\ resp.op = "get_all_orders"
    /\ resp.code = 200
    /\ resp.arg.q # <<>>
    /\ resp.arg.sort = "price_low"
    /\ resp.arg.page = 2
    /\ Len(body[1].orders) = 1
    /\ Len(body[1].orders[1].menu) = 1
    /\ \E o \in DOMAIN orders :
          /\ orders[o].store_id # Users[resp.caller].store_id
          /\ orders[o].status = body[1].orders[1].status
          /\ orders[o].ordered_at[1] = body[1].orders[1].ordered_at[1]

\* the roles each /store endpoint of the model admits
EndpointRoles(op) ==
    CASE op \in {"update_menu", "create_menu", "get_sales_report"} -> MenuWriters
      [] op = "delete_menu" -> MenuDeleters
      [] OTHER -> AnyStoreRole

\* the request passes the validation of the endpoint's body or query
EndpointAccepts(op, arg) ==
    CASE op = "update_order_status" -> OrderStatusUpdate(arg)
      [] op = "update_menu" -> MenuUpdate(arg)
      [] op = "create_menu" -> MenuCreate(arg)
      [] op = "get_all_orders" -> PageQuery(arg, MaxPerPageOrders)
      [] op = "get_all_menus" -> PageQuery(arg, MaxPerPageMenus)
      [] OTHER -> TRUE

StoreEndpoints ==
    {"get_dashboard", "get_weekly_sales", "get_all_orders", "update_order_status",
     "get_all_menus", "create_menu", "update_menu", "delete_menu", "get_sales_report"}

RECURSIVE SumCounts(_)
\* the sum of the order_count fields of a list of entries
SumCounts(s) == IF s = <<>> THEN 0 ELSE Head(s).order_count + SumCounts(Tail(s))

\* the orders of the answered caller's store whose ordered_at lies on day d
OwnOrdersOn(d) ==
    {o \in DOMAIN orders :
        orders[o].store_id = Users[resp.caller].store_id /\ orders[o].ordered_at[1] = d}

\* C12: hourly_orders of a dashboard has 24 entries, entry h + 1 being hour h
\* with the number of today's orders of the caller's store, of any status,
\* ordered in hour h; the 24 counts sum to total_orders.
C12_HourlyOrdersCoverTheDay ==
    (resp.op = "get_dashboard" /\ resp.code = 200) =>
        LET hourly == body[1].hourly_orders
        IN  /\ Len(hourly) = 24
            /\ \A h \in 0..23 :
                  /\ hourly[h + 1].hour = h
                  /\ hourly[h + 1].order_count =
                        Cardinality({o \in OwnOrdersOn(today) : orders[o].ordered_at[2] = h})
            /\ SumCounts(hourly) = body[1].total_orders

\* C12 witness: a dashboard of a day with orders of the store in two hours,
\* one of them cancelled, and an order of the store the day before.
C12_Witness ==
    /\ resp.op = "get_dashboard"
    /\ resp.code = 200
    /\ body[1].hourly_orders[11].order_count > 0
    /\ body[1].hourly_orders[12].order_count > 0
    /\ body[1].cancelled_orders > 0
    /\ OwnOrdersOn(today - 1) # {}


\* today's orders of the answered caller's store that are not cancelled
OwnLiveToday == {o \in OwnOrdersOn(today) : orders[o].status # "cancelled"}

\* C13 as the specification words it: average_order_value is the quotient
\* total_sales / (total_orders - cancelled_orders) itself whenever the
\* denominator is positive (the model holds the value in hundredths).
C13_AverageIsTheQuotient ==
    (resp.op = "get_dashboard" /\ resp.code = 200 /\ OwnLiveToday # {}) =>
        body[1].average_order_value * Cardinality(OwnLiveToday) = 100 * body[1].total_sales

\* C13: total_sales is the sum of total_price over today's orders of the
\* caller's store that are not cancelled, today_revenue equals it, and
\* average_order_value is total_sales / (total_orders - cancelled_orders)
\* rounded to two decimals (the hundredth nearest to the quotient) when the
\* denominator is positive and 0 otherwise; when every order of today is
\* cancelled, total_sales is 0, average_order_value 0 and popular_menus empty.
C13_SalesAndRoundedAverage ==
    (resp.op = "get_dashboard" /\ resp.code = 200) =>
        LET d == body[1]
            n == d.total_orders - d.cancelled_orders
            off == d.average_order_value * n - 100 * d.total_sales
        IN  /\ d.total_sales = SumTotal(orders, OwnLiveToday)
            /\ d.today_revenue = d.total_sales
            /\ n = Cardinality(OwnLiveToday)
            /\ n > 0 => (2 * off <= n /\ 0 - 2 * off <= n)
            /\ n = 0 => (d.average_order_value = 0 /\ d.total_sales = 0
                            /\ d.popular_menus = <<>>)

\* C13 witness: a dashboard over three orders of today that are not
\* cancelled and whose sales are no multiple of three.
C13_Witness ==
    /\ resp.op = "get_dashboard"
    /\ resp.code = 200
    /\ Cardinality(OwnLiveToday) = 3
    /\ body[1].average_order_value * 3 # 100 * body[1].total_sales


\* a per-status count of a dashboard, 0 for a count the response does not carry
StatusCount(d, st) ==
    LET field == CASE st = "pending" -> "pending_orders"
                   [] st = "confirmed" -> "confirmed_orders"
                   [] st = "preparing" -> "preparing_orders"
                   [] st = "ready" -> "ready_orders"
                   [] st = "completed" -> "completed_orders"
                   [] OTHER -> "cancelled_orders"
    IN  IF field \in DOMAIN d THEN d[field] ELSE 0

\* C14: the per-status counts of a dashboard partition today's orders of the
\* caller's store: each count is the number of those orders in its status, and
\* the six counts sum to total_orders.
C14_StatusCountsPartitionToday ==
    (resp.op = "get_dashboard" /\ resp.code = 200) =>
        /\ \A st \in Statuses :
              StatusCount(body[1], st) =
                  Cardinality({o \in OwnOrdersOn(today) : orders[o].status = st})
        /\ StatusCount(body[1], "pending") + StatusCount(body[1], "confirmed")
              + StatusCount(body[1], "preparing") + StatusCount(body[1], "ready")
              + StatusCount(body[1], "completed") + StatusCount(body[1], "cancelled")
              = body[1].total_orders


\* yesterday's orders of the answered caller's store that are not cancelled
OwnLiveYesterday == {o \in OwnOrdersOn(today - 1) : orders[o].status # "cancelled"}

\* p, in hundredths, is the hundredth nearest to 100 * change / prior
NearestPercent(p, change, prior) ==
    /\ 2 * (p * prior - 10000 * change) <= prior
    /\ 2 * (10000 * change - p * prior) <= prior

\* C15 as the specification words it: each percentage is change / prior-day
\* value x 100 itself whenever the prior-day value is positive.
C15_PercentIsTheQuotient ==
    (resp.op = "get_dashboard" /\ resp.code = 200) =>
        LET y == body[1].yesterday_comparison
            orders_prior == Cardinality(OwnOrdersOn(today - 1))
            revenue_prior == SumTotal(orders, OwnLiveYesterday)
        IN  /\ orders_prior > 0 =>
                  y.orders_change_percent * orders_prior = 10000 * y.orders_change
            /\ revenue_prior > 0 =>
                  y.revenue_change_percent * revenue_prior = 10000 * y.revenue_change

\* C15: orders_change is today's order count minus the prior day's,
\* revenue_change today's revenue of orders not cancelled minus the prior
\* day's, each percentage is change / prior-day value x 100 rounded to two
\* decimals, and 0 whenever its prior-day value is 0.
C15_YesterdayComparison ==
    (resp.op = "get_dashboard" /\ resp.code = 200) =>
        LET y == body[1].yesterday_comparison
            orders_prior == Cardinality(OwnOrdersOn(today - 1))
            revenue_prior == SumTotal(orders, OwnLiveYesterday)
        IN  /\ y.orders_change = Cardinality(OwnOrdersOn(today)) - orders_prior
            /\ y.revenue_change = SumTotal(orders, OwnLiveToday) - revenue_prior
            /\ IF orders_prior > 0
               THEN NearestPercent(y.orders_change_percent, y.orders_change, orders_prior)
               ELSE y.orders_change_percent = 0
            /\ IF revenue_prior > 0
               THEN NearestPercent(y.revenue_change_percent, y.revenue_change, revenue_prior)
               ELSE y.revenue_change_percent = 0

\* C15 witness: a dashboard of a day with sales of 500 after a day with sales
\* of 1500, a fall of two thirds.
C15_Witness ==
    /\ resp.op = "get_dashboard"
    /\ resp.code = 200
    /\ OwnLiveToday # {}
    /\ SumTotal(orders, OwnLiveYesterday) > 0
    /\ body[1].yesterday_comparison.revenue_change < 0
    /\ body[1].yesterday_comparison.revenue_change_percent
          * SumTotal(orders, OwnLiveYesterday)
          # 10000 * body[1].yesterday_comparison.revenue_change


\* today's orders of the answered caller's store for menu m that are not cancelled
OwnLiveTodayOf(m) == {o \in OwnLiveToday : orders[o].menu_id = m}

\* C16: popular_menus has at most 3 entries, one per menu among today's
\* orders of the caller's store that are not cancelled, in non-increasing order
\* of order_count; an entry's order_count is the number of those orders for
\* its menu and its total_revenue the sum of their total_price; no menu left
\* out has more orders than a menu listed, none is left out while the list has
\* fewer than 3 entries, and a menu whose orders are all cancelled is not listed.
C16_PopularMenusAreTheTopThree ==
    (resp.op = "get_dashboard" /\ resp.code = 200) =>
        LET popular == body[1].popular_menus
            listed == {popular[i].menu_id : i \in DOMAIN popular}
            sold == {orders[o].menu_id : o \in OwnLiveToday}
        IN  /\ Len(popular) <= 3
            /\ Cardinality(listed) = Len(popular)
            /\ listed \subseteq sold
            /\ Len(popular) < 3 => listed = sold
            /\ \A i \in DOMAIN popular :
                  /\ popular[i].order_count = Cardinality(OwnLiveTodayOf(popular[i].menu_id))
                  /\ popular[i].total_revenue =
                        SumTotal(orders, OwnLiveTodayOf(popular[i].menu_id))
                  /\ popular[i].menu_name = menus[popular[i].menu_id].name
                  /\ i > 1 => popular[i - 1].order_count >= popular[i].order_count
                  /\ \A m \in sold \ listed :
                        Cardinality(OwnLiveTodayOf(m)) <= popular[i].order_count

\* C16 witness: four menus were sold today, one of them twice; the list has
\* three entries led by that menu, and a menu sold once is left out.
C16_Witness ==
    /\ resp.op = "get_dashboard"
    /\ resp.code = 200
    /\ Cardinality({orders[o].menu_id : o \in OwnLiveToday}) = 4
    /\ Len(body[1].popular_menus) = 3
    /\ body[1].popular_menus[1].order_count = 2
    /\ body[1].popular_menus[3].order_count = 1


\* C17: the weekly chart has 7 labels and 7 values, the 7 consecutive days
\* ending today, oldest first; a value is the sum of total_price over the
\* orders of the caller's store placed on its day that are not cancelled, 0
\* when there are none.
C17_WeeklySalesCoverSevenDays ==
    (resp.op = "get_weekly_sales" /\ resp.code = 200) =>
        /\ Len(body[1].labels) = 7
        /\ Len(body[1].data) = 7
        /\ \A i \in 1..7 :
              /\ body[1].labels[i] = today - (7 - i)
              /\ body[1].data[i] =
                    SumTotal(orders, {o \in OwnOrdersOn(today - (7 - i)) :
                                         orders[o].status # "cancelled"})

\* C17 witness: a chart with sales on its first day and today, of a store
\* that sold the day before the first day as well.
C17_Witness ==
    /\ resp.op = "get_weekly_sales"
    /\ resp.code = 200
    /\ body[1].data[1] > 0
    /\ body[1].data[7] > 0
    /\ \E o \in OwnOrdersOn(today - 7) : orders[o].status # "cancelled"


\* C18: deleteMenu by an owner on a menu of the owner's store succeeds in one
\* of two ways: when an order references the menu the row stays, with
\* is_available false and nothing else changed; otherwise the row is removed.
\* The other menus and every order are unchanged.
C18_DeleteMenuIsSoftOrHard ==
    [][LET u == resp'.caller
           m == resp'.target
       IN  ( /\ Answers("delete_menu")
             /\ require_role(u, MenuDeleters)
             /\ Users[u].store_id # NULL
             /\ m \in DOMAIN menus
             /\ menus[m].store_id = Users[u].store_id )
           => /\ resp'.code = 200
              /\ orders' = orders
              /\ \A n \in DOMAIN menus \ {m} : n \in DOMAIN menus' /\ menus'[n] = menus[n]
              /\ DOMAIN menus' \subseteq DOMAIN menus
              /\ IF \E o \in DOMAIN orders : orders[o].menu_id = m
                 THEN /\ m \in DOMAIN menus'
                      /\ menus'[m] = [menus[m] EXCEPT !.is_available = FALSE]
                 ELSE m \notin DOMAIN menus']_vars

\* C18 witness: the owner's delete removed a menu no order references, after
\* a delete of a menu on sale that an order references had disabled it.
C18_Witness ==
    /\ resp.op = "delete_menu"
    /\ resp.code = 200
    /\ resp.detail = "Menu deleted successfully"
    /\ resp.target \notin DOMAIN menus
    /\ \E m \in DOMAIN menus :
          /\ menus[m].store_id = Users[resp.caller].store_id
          /\ ~menus[m].is_available
          /\ \E o \in DOMAIN orders : orders[o].menu_id = m


\* C19 as claimed: createOrder by a customer with a valid body answers 404 and
\* inserts nothing when the menu is missing or not on sale, and otherwise
\* succeeds and inserts exactly one order, of the caller, pending, with a
\* quantity from 1 to 10.
C19_CreateOrderRefusesOrInserts ==
    [][( /\ Answers("create_order")
         /\ get_current_customer(resp'.caller)
         /\ OrderCreate(resp'.arg) )
       => IF ~AvailableMenu(resp'.arg.menu_id)
          THEN /\ resp'.code = 404
               /\ orders' = orders
          ELSE /\ resp'.code = 200
               /\ Cardinality(DOMAIN orders' \ DOMAIN orders) = 1
               /\ \A o \in DOMAIN orders : o \in DOMAIN orders' /\ orders'[o] = orders[o]
               /\ \A o \in DOMAIN orders' \ DOMAIN orders :
                     /\ orders'[o].user_id = resp'.caller
                     /\ orders'[o].status = "pending"
                     /\ orders'[o].quantity \in 1..10]_vars

\* the 404 half of C19 alone
CreateOrderRefusesMissingMenu ==
    [][( /\ Answers("create_order")
         /\ get_current_customer(resp'.caller)
         /\ OrderCreate(resp'.arg)
         /\ ~AvailableMenu(resp'.arg.menu_id) )
       => (resp'.code = 404 /\ orders' = orders)]_vars


\* the orders of the answered caller that the status filter of the request keeps
OwnMatching ==
    {o \in DOMAIN orders :
        /\ orders[o].user_id = resp.caller
        /\ (resp.arg.status_filter # <<>> => orders[o].status = resp.arg.status_filter[1])}

\* C20: every order GET /customer/orders returns is an order of the caller,
\* of the status asked for when one is given; the rows come in non-increasing
\* ordered_at; total is the number of the caller's orders that match the
\* filter, whatever the page and the page size.
C20_HistoryIsOwnNewestFirst ==
    (resp.op = "get_my_orders" /\ resp.code = 200) =>
        LET rows == body[1].orders
        IN  /\ \A i \in DOMAIN rows :
                  /\ rows[i].id \in OwnMatching
                  /\ rows[i].status = orders[rows[i].id].status
                  /\ rows[i].ordered_at = orders[rows[i].id].ordered_at
            /\ \A i \in DOMAIN rows : \A j \in DOMAIN rows :
                  i < j => SeqLeq(rows[j].ordered_at, rows[i].ordered_at)
            /\ body[1].total = Cardinality(OwnMatching)

\* C20 witness: a customer with two completed orders asked for the second
\* page of one completed order and got the older one, while the table holds
\* a completed order of the other customer.
C20_Witness ==
    /\ resp.op = "get_my_orders"
    /\ resp.code = 200
    /\ resp.arg.status_filter = <<"completed">>
    /\ resp.arg.page = 2
    /\ body[1].total = 2
    /\ Len(body[1].orders) = 1
    /\ \E o \in OwnMatching : orders[o].ordered_at[1] > body[1].orders[1].ordered_at[1]
    /\ \E o \in DOMAIN orders :
          orders[o].user_id # resp.caller /\ orders[o].status = "completed"


\* C21: every menu GET /customer/menus returns, whatever its query, and the
\* menu GET /customer/menus/{id} returns, has is_available true.
C21_CustomerSeesAvailableOnly ==
    /\ (resp.op = "get_menus" /\ resp.code = 200) =>
          \A i \in DOMAIN body[1].menus : body[1].menus[i].is_available
    /\ (resp.op = "get_menu" /\ resp.code = 200) => body[1].is_available

\* the part of C21 that holds: the detail endpoint, and the listing asked
\* without is_available or with is_available=true
CustomerSeesAvailableByDefault ==
    /\ (resp.op = "get_menus" /\ resp.code = 200 /\ resp.arg.is_available # <<FALSE>>) =>
          \A i \in DOMAIN body[1].menus : body[1].menus[i].is_available
    /\ (resp.op = "get_menu" /\ resp.code = 200) => body[1].is_available


\* under the sort key, order a need not come after order b
NotAfter(a, b, sort) ==
    CASE sort = "oldest" -> SeqLeq(a.ordered_at, b.ordered_at)
      [] sort = "price_high" -> a.total_price >= b.total_price
      [] sort = "price_low" -> a.total_price <= b.total_price
      [] OTHER -> SeqLeq(b.ordered_at, a.ordered_at)

\* C22: total of GET /store/orders is the number of orders of the store that
\* match the filters, whatever the page; the response holds at most per_page
\* orders, those at positions (page-1)*per_page+1 .. page*per_page of the
\* matching orders sorted by the key: ordered_at descending for newest,
\* ascending for oldest, total_price descending for price_high and ascending
\* for price_low.
C22_PageOfSortedOrders ==
    (resp.op = "get_all_orders" /\ resp.code = 200) =>
        LET qy == resp.arg
            rows == body[1].orders
            matched == MatchedOrders(Users[resp.caller].store_id, qy)
            first == (qy.page - 1) * qy.per_page + 1
            last == Min(qy.page * qy.per_page, Cardinality(matched))
        IN  /\ body[1].total = Cardinality(matched)
            /\ Len(rows) <= qy.per_page
            /\ \A i \in DOMAIN rows : \A j \in DOMAIN rows :
                  i < j => NotAfter(rows[i], rows[j], qy.sort)
            /\ \E s \in Perms(matched) :
                  /\ \A i \in 1..(Len(s) - 1) :
                        NotAfter(orders[s[i]], orders[s[i + 1]], qy.sort)
                  /\ Len(rows) = (IF last >= first THEN last - first + 1 ELSE 0)
                  /\ \A i \in DOMAIN rows : rows[i].id = s[first + i - 1]

\* C22 witness: the second page of one order, dearest first, of a store with
\* two orders of different totals: the cheaper one.
C22_Witness ==
    /\ resp.op = "get_all_orders"
    /\ resp.code = 200
    /\ resp.arg.sort = "price_high"
    /\ resp.arg.page = 2
    /\ resp.arg.per_page = 1
    /\ body[1].total >= 2
    /\ Len(body[1].orders) = 1
    /\ \E o \in DOMAIN orders :
          /\ orders[o].store_id = Users[resp.caller].store_id
          /\ orders[o].total_price > body[1].orders[1].total_price


\* the columns of an order that no request may change
Kept(row) ==
    <<row.user_id, row.menu_id, row.store_id, row.quantity, row.total_price,
      row.delivery_time, row.notes, row.ordered_at>>

\* C23: no step removes an order or changes its user_id, menu_id, store_id,
\* quantity, total_price, delivery_time, notes or ordered_at; an order changes
\* only in the step that answers 200 to a cancelOrder or an updateOrderStatus
\* on that order.
C23_OrdersChangeOnlyInStatus ==
    [][\A o \in DOMAIN orders :
          /\ o \in DOMAIN orders'
          /\ Kept(orders'[o]) = Kept(orders[o])
          /\ orders'[o] # orders[o] =>
                /\ resp'.op \in {"cancel_order", "update_order_status"}
                /\ resp'.code = 200
                /\ resp'.target = o]_vars

\* C23 witness: an order of an earlier hour was made ready at noon; its
\* updated_at is the time of the request and its ordered_at is not.
C23_Witness ==
    /\ resp.op = "update_order_status"
    /\ resp.code = 200
    /\ orders[resp.target].status = "ready"
    /\ orders[resp.target].updated_at = Now
    /\ orders[resp.target].ordered_at # Now
    /\ \E m \in DOMAIN menus : ~menus[m].is_available /\ orders[resp.target].menu_id = m


\* C24: status changes on one order are not serialized.  A request is let
\* through to its commit on the status it reads, whether or not another
\* request on the same order is between its check and its commit; and every
\* commit answers 200 and stores its own status over whatever the order holds
\* by then, so the status written last stays.
C24_LastWriterWins ==
    [][/\ \A w \in writes' \ writes :
             /\ w.seen = orders[w.target].status
             /\ IF w.op = "cancel_order" THEN CancelAllowed(w.seen)
                ELSE TransitionAllowed(w.seen, w.val)
       /\ \A w \in writes \ writes' :
             /\ resp'.code = 200
             /\ resp'.target = w.target
             /\ orders'[w.target].status = w.val]_vars

\* C24 witness: a cancelOrder and an updateOrderStatus to ready both passed
\* their check on the same pending order; the cancel has committed with 200,
\* the order is cancelled, and the update is still to commit.
C24_Witness ==
    /\ resp.op = "cancel_order"
    /\ resp.code = 200
    /\ resp.seen = "pending"
    /\ orders[resp.target].status = "cancelled"
    /\ \E w \in writes :
          /\ w.op = "update_order_status"
          /\ w.target = resp.target
          /\ w.seen = "pending"
          /\ w.val = "ready"


\* C25: createMenu and updateMenu asked by anyone but an owner or a manager,
\* and deleteMenu asked by anyone but an owner, are answered 403 and leave the
\* menus table as it was; the menus table changes only in a step that answers
\* a menu request of a caller with such a role.
C25_MenuWritesAreGatedByRole ==
    [][LET u == resp'.caller
           writer == Users[u].role = "store" /\ Users[u].user_role \in {"owner", "manager"}
           owner == Users[u].role = "store" /\ Users[u].user_role = "owner"
       IN  /\ (resp'.op \in {"create_menu", "update_menu"} /\ ~writer) =>
                 (resp'.code = 403 /\ menus' = menus /\ menu_seq' = menu_seq)
           /\ (Answers("delete_menu") /\ ~owner) =>
                 (resp'.code = 403 /\ menus' = menus /\ menu_seq' = menu_seq)
           /\ menus' # menus =>
                 \/ resp'.op \in {"create_menu", "update_menu"} /\ writer
                 \/ Answers("delete_menu") /\ owner]_vars

\* C25 witness: the manager of a store, who had changed the price of a menu
\* of the store, asked to delete it, was answered 403, and the menu is there.
C25_Witness ==
    /\ resp.op = "delete_menu"
    /\ resp.code = 403
    /\ Users[resp.caller].user_role = "manager"
    /\ resp.target \in DOMAIN menus
    /\ menus[resp.target].store_id = Users[resp.caller].store_id
    /\ menus[resp.target].price # SeedMenus[resp.target].price


\* C27 as claimed: createMenu by an owner or manager of a store, with a valid
\* body, inserts a menu whose store_id is the caller's, whatever store_id the
\* body carries; and no step changes the store_id of a menu.
C27_MenuStoreIsCallersStore ==
    [][/\ ( /\ Answers("create_menu")
             /\ require_role(resp'.caller, MenuWriters)
             /\ Users[resp'.caller].store_id # NULL
             /\ MenuCreate(resp'.arg) )
           => /\ resp'.code = 200
              /\ \E m \in DOMAIN menus' \ DOMAIN menus :
                    menus'[m].store_id = Users[resp'.caller].store_id
       /\ \A m \in DOMAIN menus \cap DOMAIN menus' :
             menus'[m].store_id = menus[m].store_id]_vars

\* the part of C27 that holds: no menu row appears with the store_id of
\* another store than the caller's, and no step changes a menu's store_id
MenuStoreNeverChanges ==
    [][/\ \A m \in DOMAIN menus' \ DOMAIN menus :
             menus'[m].store_id = Users[resp'.caller].store_id
       /\ \A m \in DOMAIN menus \cap DOMAIN menus' :
             menus'[m].store_id = menus[m].store_id]_vars


\* C26 as claimed: a listing bounded by start_date and end_date holds exactly
\* the store's orders placed from the first instant of start_date to the last
\* instant of end_date, every order of the end_date calendar day included.
C26_DateRangeCoversWholeDays ==
    (resp.op = "get_all_orders" /\ resp.code = 200
        /\ resp.arg.start_date # <<>> /\ resp.arg.end_date # <<>>)
    => {body[1].orders[i].id : i \in 1..Len(body[1].orders)}
         = {o \in DOMAIN orders :
              /\ orders[o].store_id = Users[resp.caller].store_id
              /\ orders[o].ordered_at[1] >= resp.arg.start_date[1]
              /\ orders[o].ordered_at[1] <= resp.arg.end_date[1]}

\* the part of C26 that holds: the listing holds no order of an earlier or a
\* later day nor of another store, and every order of the range placed no
\* later than 23:59:59.000000 of end_date
DateRangeUpToLastSecond ==
    (resp.op = "get_all_orders" /\ resp.code = 200
        /\ resp.arg.start_date # <<>> /\ resp.arg.end_date # <<>>)
    => LET listed == {body[1].orders[i].id : i \in 1..Len(body[1].orders)}
           inDays == {o \in DOMAIN orders :
                        /\ orders[o].store_id = Users[resp.caller].store_id
                        /\ orders[o].ordered_at[1] >= resp.arg.start_date[1]
                        /\ orders[o].ordered_at[1] <= resp.arg.end_date[1]}
       IN  /\ listed \subseteq inDays
           /\ \A o \in inDays :
                 (orders[o].ordered_at[1] < resp.arg.end_date[1]
                     \/ orders[o].ordered_at[5] = 0) => o \in listed


RECURSIVE SumOver(_, _)
\* the sum of one field over the entries of a list of the report
SumOver(list, field) ==
    IF list = <<>> THEN 0 ELSE Head(list)[field] + SumOver(Tail(list), field)

\* the caller's store's orders of calendar day d that are not cancelled
OwnLiveOn(d) ==
    {o \in DOMAIN orders :
        /\ orders[o].store_id = Users[resp.caller].store_id
        /\ orders[o].ordered_at[1] = d
        /\ orders[o].status # "cancelled"}

\* C30 as claimed: in every sales report the totals are the sums of the daily
\* entries and of the menu entries, and the count and the sales of each day
\* are taken over one set of the store's orders of that day that are not
\* cancelled.
C30_SalesReportIsConsistent ==
    (resp.op = "get_sales_report" /\ resp.code = 200)
    => LET report == body[1]
       IN  /\ report.total_orders = SumOver(report.daily_reports, "total_orders")
           /\ report.total_sales = SumOver(report.daily_reports, "total_sales")
           /\ report.total_sales = SumOver(report.menu_reports, "total_sales")
           /\ \A i \in 1..Len(report.daily_reports) :
                 \E rows \in SUBSET OwnLiveOn(report.daily_reports[i].date) :
                    /\ report.daily_reports[i].total_orders = Cardinality(rows)
                    /\ report.daily_reports[i].total_sales = SumTotal(orders, rows)

\* the part of C30 that holds: the report's count is the sum of the daily
\* counts, its sales are the sum of the menu entries' sales, and each day's
\* sales are those of all the store's orders of the day that are not cancelled
SalesReportCountsAgree ==
    (resp.op = "get_sales_report" /\ resp.code = 200)
    => LET report == body[1]
       IN  /\ report.total_orders = SumOver(report.daily_reports, "total_orders")
           /\ report.total_sales = SumOver(report.menu_reports, "total_sales")
           /\ \A i \in 1..Len(report.daily_reports) :
                 report.daily_reports[i].total_sales
                    = SumTotal(orders, OwnLiveOn(report.daily_reports[i].date))


====
